---- MODULE Spec2Model ----
(***************************************************************************)
(* Z80Core: registers, flags, 64K memory, breakpoints, step/run/debug and  *)
(* the getState/setState snapshot interface.                               *)
(*                                                                         *)
(* JavaScript objects are modelled by reference where the code shares      *)
(* them: registers.flags and registers.flags_prime hold object ids into    *)
(* heap, so the shallow copy of getState and the reference swap of         *)
(* exchangeRegisterSets alias exactly as they do in the source.            *)
(* The Uint8Array(65536) is kept as the function of its non-zero cells.    *)
(***************************************************************************)
EXTENDS Integers, FiniteSets, Sequences, TLC

VARIABLES
    registers,          \* this.registers: name -> number, flags/flags_prime -> object id
    heap,               \* object id -> flags object {s,z,h,pv,n,c}
    memory,             \* this.memory, the non-zero cells of the Uint8Array
    halted,             \* this.halted
    interruptsEnabled,  \* this.interruptsEnabled
    breakpoints,        \* this.breakpoints (Set)
    isDebugging,        \* this.isDebugging
    stepMode,           \* this.stepMode
    hasSnap,            \* a caller holds a getState() result
    snap,               \* that result
    runState,           \* position of the caller inside run(): "idle" or "loop"
    runStart,           \* ghost: pc and halted when run() was entered, and whether reset() preceded it
    executed,           \* ghost: step() calls made by the current/last run()
    bpFetches,          \* ghost: opcode fetches of the current/last run() at breakpoint addresses
    lastOp,             \* ghost: name of the last public operation
    ret,                \* ghost: what that operation returned
    asmEditor,          \* AsmEditor: code, assembledProgram, errors, startAddress
    debugger,           \* Debugger: running, breakpoints, and the interval timer
    registerEditor,     \* RegisterEditor: its local registers and flags
    app                 \* App: the z80 handle it passes to its editors

vars == <<registers, heap, memory, halted, interruptsEnabled, breakpoints,
          isDebugging, stepMode, hasSnap, snap, runState, runStart, executed,
          bpFetches, lastOp, ret, asmEditor, debugger, registerEditor, app>>

\* the state of the React components
components == <<asmEditor, debugger, registerEditor, app>>

(***************************************************************************)
(* Program constants                                                       *)
(***************************************************************************)
MemSize == 65536
ByteSize == 256
OpNop == 0
OpLdAn == 62
OpHalt == 118
ResetSP == 65535

(***************************************************************************)
(* Bounds of the model                                                     *)
(***************************************************************************)
\* step()/run()/debug() are explored while the masked PC is below MaxCodeAddr
\* or in the last two cells of memory (so that the wrap to 0 is covered).
MaxCodeAddr == 4
\* the ghost counter executed saturates here
MaxCount == 12
\* pushStack is explored while at most MaxStack words are on the stack
MaxStack == 1
\* largest n of the "n NOPs then HALT" scenario
MaxNops == 8

Reg8 == {"a", "b", "c", "d", "e", "h", "l",
         "a_prime", "b_prime", "c_prime", "d_prime", "e_prime", "h_prime", "l_prime",
         "i", "r"}
Reg16 == {"ix", "iy", "sp", "pc"}
RegNames == Reg8 \cup Reg16
ObjKeys == {"flags", "flags_prime"}
FlagNames == {"s", "z", "h", "pv", "n", "c"}

ZeroFlags == [f \in FlagNames |-> 0]

\* return values
Undefined == [type |-> "undefined"]
Bool(b) == [type |-> "boolean", value |-> b]
Num(n) == [type |-> "number", value |-> n]

\* x & 0xFFFF and x & 0xFF on JavaScript numbers that are integers
Mask16(x) == x % MemSize
Mask8(x) == x % ByteSize
\* (x >> 8) & 0xFF
HighByte(x) == (x \div ByteSize) % ByteSize

(***************************************************************************)
(* Memory                                                                  *)
(***************************************************************************)
EmptyMem == [x \in {} |-> 0]

ReadByte(mem, address) ==
    IF Mask16(address) \in DOMAIN mem THEN mem[Mask16(address)] ELSE 0

\* mutant: writeByte stores the value as given
WriteByteKeepsValue(mem, address, value) ==
    LET a == Mask16(address)
    IN  IF value = 0
        THEN [x \in (DOMAIN mem) \ {a} |-> mem[x]]
        ELSE [x \in (DOMAIN mem) \cup {a} |-> IF x = a THEN value ELSE mem[x]]

WriteByte(mem, address, value) ==
    LET a == Mask16(address)
        v == Mask8(value)
    IN  IF v = 0
        THEN [x \in (DOMAIN mem) \ {a} |-> mem[x]]
        ELSE [x \in (DOMAIN mem) \cup {a} |-> IF x = a THEN v ELSE mem[x]]

ReadWord(mem, address) ==
    LET low == ReadByte(mem, address)
        high == ReadByte(mem, Mask16(address + 1))
    IN  high * ByteSize + low

\* mutant: writeWord stores the high byte first
WriteWordHighFirst(mem, address, value) ==
    WriteByte(WriteByte(mem, address, HighByte(value)),
              Mask16(address + 1), Mask8(value))

WriteWord(mem, address, value) ==
    WriteByte(WriteByte(mem, address, Mask8(value)),
              Mask16(address + 1), HighByte(value))

RECURSIVE LoadProgramMem(_, _, _)
LoadProgramMem(mem, program, startAddress) ==
    IF program = <<>> THEN mem
    ELSE LoadProgramMem(WriteByte(mem, startAddress, Head(program)),
                        Tail(program), startAddress + 1)

(***************************************************************************)
(* Flags                                                                   *)
(***************************************************************************)
\* (value & bit) >> shift
Bit(value, bit) == (value \div bit) % 2

\* a | b on non-negative integers
RECURSIVE BitOr(_, _)
BitOr(x, y) ==
    IF x = 0 THEN y
    ELSE IF y = 0 THEN x
    ELSE 2 * BitOr(x \div 2, y \div 2) + (IF x % 2 = 1 \/ y % 2 = 1 THEN 1 ELSE 0)

\* a & b on non-negative integers
RECURSIVE BitAnd(_, _)
BitAnd(x, y) ==
    IF x = 0 \/ y = 0 THEN 0
    ELSE 2 * BitAnd(x \div 2, y \div 2) + (IF x % 2 = 1 /\ y % 2 = 1 THEN 1 ELSE 0)

GetF(fl) ==
    BitOr(fl["s"] * 128,
      BitOr(fl["z"] * 64,
        BitOr(fl["h"] * 16,
          BitOr(fl["pv"] * 4,
            BitOr(fl["n"] * 2, fl["c"])))))

\* mutant: setF takes the half-carry flag from bit 3
SetFFlagsHalfFromBit3(value) ==
    [f \in FlagNames |->
        CASE f = "s" -> Bit(value, 128)
          [] f = "z" -> Bit(value, 64)
          [] f = "h" -> Bit(value, 8)
          [] f = "pv" -> Bit(value, 4)
          [] f = "n" -> Bit(value, 2)
          [] f = "c" -> Bit(value, 1)]

SetFFlags(value) ==
    [f \in FlagNames |->
        CASE f = "s" -> Bit(value, 128)
          [] f = "z" -> Bit(value, 64)
          [] f = "h" -> Bit(value, 16)
          [] f = "pv" -> Bit(value, 4)
          [] f = "n" -> Bit(value, 2)
          [] f = "c" -> Bit(value, 1)]

\* the live flags and shadow flags objects
Flags == heap[registers["flags"]]
FlagsPrime == heap[registers["flags_prime"]]

(***************************************************************************)
(* Construction                                                            *)
(***************************************************************************)
NoSnap ==
    [registers |-> [k \in RegNames \cup ObjKeys |->
                        IF k = "flags" THEN 1 ELSE IF k = "flags_prime" THEN 2 ELSE 0],
     pc |-> 0, sp |-> 0,
     flags |-> ZeroFlags, halted |-> FALSE, interruptsEnabled |-> FALSE]

Constructed ==
    /\ registers = [k \in RegNames \cup ObjKeys |->
                        IF k = "flags" THEN 1 ELSE IF k = "flags_prime" THEN 2 ELSE 0]
    /\ heap = [o \in {1, 2} |-> ZeroFlags]
    /\ memory = EmptyMem
    /\ halted = FALSE
    /\ interruptsEnabled = FALSE
    /\ breakpoints = {}
    /\ isDebugging = FALSE
    /\ stepMode = FALSE

\* runStart while no run() is the last operation
NoRun == [pc |-> 0, halted |-> FALSE, afterReset |-> FALSE]

GhostInit ==
    /\ hasSnap = FALSE
    /\ snap = NoSnap
    /\ runState = "idle"
    /\ runStart = NoRun
    /\ executed = 0
    /\ bpFetches = {}
    /\ lastOp = "constructor"
    /\ ret = Undefined

\* the components as their useState() calls create them
AsmEditorInit == [code |-> <<>>, assembledProgram |-> <<>>, errors |-> <<>>,
                  startAddress |-> 0]
DebuggerInit == [running |-> FALSE, breakpoints |-> {}, timer |-> FALSE,
                 timerBreakpoints |-> {}]
RegisterEditorInit == [registers |-> <<>>, flags |-> <<>>]
AppInit == [prototype |-> "Z80Core", halted |-> FALSE, activeTab |-> "registers"]

\* no component is in use: the engine is driven directly
Unmounted ==
    /\ asmEditor = AsmEditorInit
    /\ debugger = DebuggerInit
    /\ registerEditor = RegisterEditorInit
    /\ app = AppInit

\* the App with the tab of the AsmEditor or of the Debugger opened
Opened(tab) ==
    /\ asmEditor = AsmEditorInit
    /\ debugger = DebuggerInit
    /\ registerEditor = RegisterEditorInit
    /\ app = [AppInit EXCEPT !.activeTab = tab]

Init == Constructed /\ GhostInit /\ Unmounted

(***************************************************************************)
(* Inputs the operations are explored with                                 *)
(***************************************************************************)
WordInputs == {74565}                \* 0x12345: wider than 16 bits
FInputs == {255}
\* writeByte(address, value): LD A,n and HALT (as 0x176) at 0 and 0xFFFF, and
\* the operand 0x42 (as 0x142) at 1 (as 0x10001), and 0 (as 0x100) at 0
WriteInputs == {<<0, 62>>, <<0, 374>>, <<65537, 322>>, <<65535, 62>>, <<65535, 374>>,
                <<0, 256>>}
BpInputs == {1, 65540}               \* 65540 wraps to 4

\* setState inputs of the engine specification
StateInputs ==
    { [registers |-> [a |-> 256]],
      [registers |-> [pc |-> 65540, zz |-> 7]],
      [pc |-> 131071],
      [halted |-> FALSE],
      [halted |-> TRUE] }

\* the part of the PC range in which execution is explored
InWindow(pc) == Mask16(pc) <= MaxCodeAddr \/ Mask16(pc) >= MemSize - 2
InSpWindow(sp) == sp <= 2 * MaxStack \/ sp >= MemSize - 2 * MaxStack - 1

Idle == runState = "idle"
\* a public operation of the engine, called on the instance directly
Op(name, r) == lastOp' = name /\ ret' = r /\ UNCHANGED components
\* the ghosts of run() describe the current run(), or the last one while no
\* other operation has followed it
RunGhostClear == runStart' = NoRun /\ executed' = 0 /\ bpFetches' = {}
GhostSame == UNCHANGED <<hasSnap, snap, runState>> /\ RunGhostClear

(***************************************************************************)
(* Register file                                                           *)
(***************************************************************************)
SetPair(regs, high, low, value) ==
    [regs EXCEPT ![high] = HighByte(value), ![low] = Mask8(value)]

GetPair(regs, high, low) == regs[high] * ByteSize + regs[low]

SetBC(value) ==
    /\ Idle
    /\ registers' = SetPair(registers, "b", "c", value)
    /\ Op("setBC", Undefined)
    /\ UNCHANGED <<heap, memory, halted, interruptsEnabled, breakpoints, isDebugging, stepMode>>
    /\ GhostSame

SetDE(value) ==
    /\ Idle
    /\ registers' = SetPair(registers, "d", "e", value)
    /\ Op("setDE", Undefined)
    /\ UNCHANGED <<heap, memory, halted, interruptsEnabled, breakpoints, isDebugging, stepMode>>
    /\ GhostSame

SetHL(value) ==
    /\ Idle
    /\ registers' = SetPair(registers, "h", "l", value)
    /\ Op("setHL", Undefined)
    /\ UNCHANGED <<heap, memory, halted, interruptsEnabled, breakpoints, isDebugging, stepMode>>
    /\ GhostSame

SetF(value) ==
    /\ Idle
    /\ heap' = [heap EXCEPT ![registers["flags"]] = SetFFlags(value)]
    /\ Op("setF", Undefined)
    /\ UNCHANGED <<registers, memory, halted, interruptsEnabled, breakpoints, isDebugging, stepMode>>
    /\ GhostSame

\* mutant: the exchange copies the shadow set into the primary set and leaves
\* the shadow set as it was
ExchangedRegistersCopy(regs) ==
    [k \in DOMAIN regs |->
        CASE k = "a" -> regs["a_prime"]
          [] k = "b" -> regs["b_prime"]
          [] k = "c" -> regs["c_prime"]
          [] k = "d" -> regs["d_prime"]
          [] k = "e" -> regs["e_prime"]
          [] k = "h" -> regs["h_prime"]
          [] k = "l" -> regs["l_prime"]
          [] k = "flags" -> regs["flags_prime"]
          [] OTHER -> regs[k]]

ExchangedRegisters(regs) ==
    [k \in DOMAIN regs |->
        CASE k = "a" -> regs["a_prime"] [] k = "a_prime" -> regs["a"]
          [] k = "b" -> regs["b_prime"] [] k = "b_prime" -> regs["b"]
          [] k = "c" -> regs["c_prime"] [] k = "c_prime" -> regs["c"]
          [] k = "d" -> regs["d_prime"] [] k = "d_prime" -> regs["d"]
          [] k = "e" -> regs["e_prime"] [] k = "e_prime" -> regs["e"]
          [] k = "h" -> regs["h_prime"] [] k = "h_prime" -> regs["h"]
          [] k = "l" -> regs["l_prime"] [] k = "l_prime" -> regs["l"]
          [] k = "flags" -> regs["flags_prime"] [] k = "flags_prime" -> regs["flags"]
          [] OTHER -> regs[k]]

ExchangeRegisterSets ==
    /\ Idle
    /\ registers' = ExchangedRegisters(registers)
    /\ Op("exchangeRegisterSets", Undefined)
    /\ UNCHANGED <<heap, memory, halted, interruptsEnabled, breakpoints, isDebugging, stepMode>>
    /\ GhostSame

(***************************************************************************)
(* Memory and stack operations                                             *)
(***************************************************************************)
DoWriteByte(address, value) ==
    /\ Idle
    /\ memory' = WriteByte(memory, address, value)
    /\ Op("writeByte", Undefined)
    /\ UNCHANGED <<registers, heap, halted, interruptsEnabled, breakpoints, isDebugging, stepMode>>
    /\ GhostSame

DoWriteWord(address, value) ==
    /\ Idle
    /\ memory' = WriteWord(memory, address, value)
    /\ Op("writeWord", Undefined)
    /\ UNCHANGED <<registers, heap, halted, interruptsEnabled, breakpoints, isDebugging, stepMode>>
    /\ GhostSame

LoadProgram(program, startAddress) ==
    /\ Idle
    /\ memory' = LoadProgramMem(memory, program, startAddress)
    /\ Op("loadProgram", Undefined)
    /\ UNCHANGED <<registers, heap, halted, interruptsEnabled, breakpoints, isDebugging, stepMode>>
    /\ GhostSame

PushStack(value) ==
    /\ Idle
    /\ InSpWindow(Mask16(registers["sp"] - 2))
    /\ LET sp == Mask16(registers["sp"] - 2)
       IN  /\ registers' = [registers EXCEPT !["sp"] = sp]
           /\ memory' = WriteWord(memory, sp, value)
    /\ Op("pushStack", Undefined)
    /\ UNCHANGED <<heap, halted, interruptsEnabled, breakpoints, isDebugging, stepMode>>
    /\ GhostSame

PopStack ==
    /\ Idle
    /\ InSpWindow(Mask16(registers["sp"] + 2))
    /\ registers' = [registers EXCEPT !["sp"] = Mask16(registers["sp"] + 2)]
    /\ Op("popStack", Num(ReadWord(memory, registers["sp"])))
    /\ UNCHANGED <<heap, memory, halted, interruptsEnabled, breakpoints, isDebugging, stepMode>>
    /\ GhostSame

(***************************************************************************)
(* reset                                                                   *)
(***************************************************************************)
ResetRegisters(regs) ==
    [k \in DOMAIN regs |->
        IF k \in ObjKeys THEN regs[k]
        ELSE IF k = "sp" THEN ResetSP
        ELSE 0]

\* mutant: reset() zeroes the primary flags object only
ResetHeapPrimaryOnly(hp, regs) ==
    [o \in DOMAIN hp |-> IF o = regs["flags"] THEN ZeroFlags ELSE hp[o]]

\* every sub-key of the two flags objects the register file refers to is zeroed
ResetHeap(hp, regs) ==
    [o \in DOMAIN hp |->
        IF o = regs["flags"] \/ o = regs["flags_prime"] THEN ZeroFlags ELSE hp[o]]

Reset ==
    /\ Idle
    /\ registers' = ResetRegisters(registers)
    /\ heap' = ResetHeap(heap, registers)
    /\ halted' = FALSE
    /\ interruptsEnabled' = FALSE
    /\ Op("reset", Undefined)
    /\ UNCHANGED <<memory, breakpoints, isDebugging, stepMode>>
    /\ GhostSame

(***************************************************************************)
(* Breakpoints                                                             *)
(***************************************************************************)
\* mutant: setBreakpoint adds the address as given
BreakpointsAfterSetUnmasked(bps, address) == bps \cup {address}

\* the breakpoint set that setBreakpoint, clearBreakpoint and toggleBreakpoint leave
BreakpointsAfterSet(bps, address) == bps \cup {Mask16(address)}

BreakpointsAfterClear(bps, address) == bps \ {Mask16(address)}

BreakpointsAfterToggle(bps, address) ==
    IF Mask16(address) \in bps THEN bps \ {Mask16(address)} ELSE bps \cup {Mask16(address)}

SetBreakpoint(address) ==
    /\ Idle
    /\ breakpoints' = BreakpointsAfterSet(breakpoints, address)
    /\ Op("setBreakpoint", Undefined)
    /\ UNCHANGED <<registers, heap, memory, halted, interruptsEnabled, isDebugging, stepMode>>
    /\ GhostSame

ClearBreakpoint(address) ==
    /\ Idle
    /\ breakpoints' = BreakpointsAfterClear(breakpoints, address)
    /\ Op("clearBreakpoint", Undefined)
    /\ UNCHANGED <<registers, heap, memory, halted, interruptsEnabled, isDebugging, stepMode>>
    /\ GhostSame

ToggleBreakpoint(address) ==
    /\ Idle
    /\ breakpoints' = BreakpointsAfterToggle(breakpoints, address)
    /\ Op("toggleBreakpoint", Bool(Mask16(address) \notin breakpoints))
    /\ UNCHANGED <<registers, heap, memory, halted, interruptsEnabled, isDebugging, stepMode>>
    /\ GhostSame

ClearAllBreakpoints ==
    /\ Idle
    /\ breakpoints' = {}
    /\ Op("clearAllBreakpoints", Undefined)
    /\ UNCHANGED <<registers, heap, memory, halted, interruptsEnabled, isDebugging, stepMode>>
    /\ GhostSame

(***************************************************************************)
(* Execution                                                               *)
(***************************************************************************)
\* mutant: HALT is not decoded and falls through like an unknown opcode
ExecuteInstructionNoHalt(opcode, regs, mem, h) ==
    IF opcode = OpLdAn
    THEN [registers |-> [regs EXCEPT !["pc"] = Mask16(regs["pc"] + 1),
                                     !["a"] = ReadByte(mem, regs["pc"])],
          halted |-> h]
    ELSE [registers |-> regs, halted |-> h]

\* mutant: LD A,n reads its operand but leaves the PC on it
ExecuteInstructionLdKeepsPc(opcode, regs, mem, h) ==
    IF opcode = OpLdAn
    THEN [registers |-> [regs EXCEPT !["a"] = ReadByte(mem, regs["pc"])], halted |-> h]
    ELSE IF opcode = OpHalt
    THEN [registers |-> regs, halted |-> TRUE]
    ELSE [registers |-> regs, halted |-> h]

\* mutant: NOP also skips the byte that follows it
ExecuteInstructionNopSkips(opcode, regs, mem, h) ==
    IF opcode = OpNop
    THEN [registers |-> [regs EXCEPT !["pc"] = Mask16(regs["pc"] + 1)], halted |-> h]
    ELSE IF opcode = OpLdAn
    THEN [registers |-> [regs EXCEPT !["pc"] = Mask16(regs["pc"] + 1),
                                     !["a"] = ReadByte(mem, regs["pc"])],
          halted |-> h]
    ELSE IF opcode = OpHalt
    THEN [registers |-> regs, halted |-> TRUE]
    ELSE [registers |-> regs, halted |-> h]

\* mutant: an opcode that is not decoded halts the engine
ExecuteInstructionUnknownHalts(opcode, regs, mem, h) ==
    IF opcode = OpNop
    THEN [registers |-> regs, halted |-> h]
    ELSE IF opcode = OpLdAn
    THEN [registers |-> [regs EXCEPT !["pc"] = Mask16(regs["pc"] + 1),
                                     !["a"] = ReadByte(mem, regs["pc"])],
          halted |-> h]
    ELSE [registers |-> regs, halted |-> TRUE]

\* executeInstruction(opcode), entered with the PC already past the opcode
ExecuteInstruction(opcode, regs, mem, h) ==
    IF opcode = OpNop
    THEN [registers |-> regs, halted |-> h]
    ELSE IF opcode = OpLdAn
    THEN LET value == ReadByte(mem, regs["pc"])
         IN  [registers |-> [regs EXCEPT !["pc"] = Mask16(regs["pc"] + 1), !["a"] = value],
              halted |-> h]
    ELSE IF opcode = OpHalt
    THEN [registers |-> regs, halted |-> TRUE]
    ELSE [registers |-> regs, halted |-> h]

\* mutant: step() on a halted engine resumes it
StepCoreResumes(regs, mem, h) ==
    IF h
    THEN [registers |-> regs, halted |-> FALSE, ret |-> FALSE]
    ELSE LET opcode == ReadByte(mem, regs["pc"])
             fetched == [regs EXCEPT !["pc"] = Mask16(regs["pc"] + 1)]
             done == ExecuteInstruction(opcode, fetched, mem, h)
         IN  [registers |-> done.registers, halted |-> done.halted, ret |-> TRUE]

\* mutant: step() declines to execute at a breakpoint
StepCoreHonoursBreakpoints(regs, mem, h) ==
    IF h \/ regs["pc"] \in breakpoints
    THEN [registers |-> regs, halted |-> h, ret |-> FALSE]
    ELSE LET opcode == ReadByte(mem, regs["pc"])
             fetched == [regs EXCEPT !["pc"] = Mask16(regs["pc"] + 1)]
             done == ExecuteInstruction(opcode, fetched, mem, h)
         IN  [registers |-> done.registers, halted |-> done.halted, ret |-> TRUE]

\* step(): the registers, the halted flag and the return value it leaves
StepCore(regs, mem, h) ==
    IF h
    THEN [registers |-> regs, halted |-> h, ret |-> FALSE]
    ELSE LET opcode == ReadByte(mem, regs["pc"])
             fetched == [regs EXCEPT !["pc"] = Mask16(regs["pc"] + 1)]
             done == ExecuteInstruction(opcode, fetched, mem, h)
         IN  [registers |-> done.registers, halted |-> done.halted, ret |-> TRUE]

Step ==
    /\ Idle
    /\ halted \/ InWindow(registers["pc"])
    /\ LET r == StepCore(registers, memory, halted)
       IN  /\ registers' = r.registers
           /\ halted' = r.halted
           /\ Op("step", Bool(r.ret))
    /\ UNCHANGED <<heap, memory, interruptsEnabled, breakpoints, isDebugging, stepMode>>
    /\ GhostSame

Pending == [type |-> "pending"]

Saturate(n) == IF n < MaxCount THEN n + 1 ELSE n

\* run(), up to the first test of the loop condition
RunEnter ==
    /\ Idle
    /\ isDebugging' = FALSE
    /\ runState' = "loop"
    /\ runStart' = [pc |-> registers["pc"], halted |-> halted,
                    afterReset |-> (lastOp = "reset")]
    /\ executed' = 0
    /\ bpFetches' = {}
    /\ Op("run", Pending)
    /\ UNCHANGED <<registers, heap, memory, halted, interruptsEnabled, breakpoints, stepMode,
                   hasSnap, snap>>

\* while (!this.halted) fails: run() returns
RunExitHalted ==
    /\ runState = "loop"
    /\ halted
    /\ runState' = "idle"
    /\ Op("run", Undefined)
    /\ UNCHANGED <<registers, heap, memory, halted, interruptsEnabled, breakpoints, isDebugging,
                   stepMode, hasSnap, snap, runStart, executed, bpFetches>>

\* the breakpoint test of the loop body succeeds: break, run() returns
RunBreak ==
    /\ runState = "loop"
    /\ ~halted
    /\ registers["pc"] \in breakpoints
    /\ isDebugging' = TRUE
    /\ runState' = "idle"
    /\ Op("run", Undefined)
    /\ UNCHANGED <<registers, heap, memory, halted, interruptsEnabled, breakpoints,
                   stepMode, hasSnap, snap, runStart, executed, bpFetches>>

\* mutant: the loop body steps without testing the breakpoint set
RunStepUnguarded ==
    /\ runState = "loop"
    /\ ~halted
    /\ LET r == StepCore(registers, memory, halted)
       IN  /\ registers' = r.registers
           /\ halted' = r.halted
    /\ executed' = Saturate(executed)
    /\ UNCHANGED bpFetches
    /\ Op("run", Pending)
    /\ UNCHANGED <<heap, memory, interruptsEnabled, breakpoints, isDebugging, stepMode,
                   hasSnap, snap, runState, runStart>>

\* the breakpoint test fails: this.step()
RunStep ==
    /\ runState = "loop"
    /\ ~halted
    /\ registers["pc"] \notin breakpoints
    /\ LET r == StepCore(registers, memory, halted)
       IN  /\ registers' = r.registers
           /\ halted' = r.halted
    /\ executed' = Saturate(executed)
    /\ bpFetches' = IF Mask16(registers["pc"]) \in breakpoints
                    THEN bpFetches \cup {[address |-> Mask16(registers["pc"]),
                                          first |-> (executed = 0)]}
                    ELSE bpFetches
    /\ Op("run", Pending)
    /\ UNCHANGED <<heap, memory, interruptsEnabled, breakpoints, isDebugging, stepMode,
                   hasSnap, snap, runState, runStart>>

\* one test of the loop condition and, if it holds, one pass through the body
RunIter == RunExitHalted \/ RunBreak \/ RunStep

RunStepInWindow == InWindow(registers["pc"]) /\ RunStep

\* mutant: debug() steps without testing the breakpoint set
DebugUnguarded ==
    /\ Idle
    /\ halted \/ stepMode \/ registers["pc"] \in breakpoints \/ InWindow(registers["pc"])
    /\ isDebugging' = TRUE
    /\ IF ~halted /\ ~stepMode
       THEN LET r == StepCore(registers, memory, halted)
            IN  /\ registers' = r.registers
                /\ halted' = r.halted
                /\ Op("debug", [type |-> "object", stopped |-> r.halted,
                                address |-> r.registers["pc"]])
       ELSE /\ Op("debug", [type |-> "object", stopped |-> halted,
                            address |-> registers["pc"]])
            /\ UNCHANGED <<registers, halted>>
    /\ UNCHANGED <<heap, memory, interruptsEnabled, breakpoints, stepMode>>
    /\ GhostSame

Debug ==
    /\ Idle
    /\ halted \/ stepMode \/ registers["pc"] \in breakpoints \/ InWindow(registers["pc"])
    /\ isDebugging' = TRUE
    /\ IF ~halted /\ ~stepMode
       THEN IF registers["pc"] \in breakpoints
            THEN /\ Op("debug", [type |-> "object", stopped |-> TRUE,
                                 address |-> registers["pc"]])
                 /\ UNCHANGED <<registers, halted>>
            ELSE LET r == StepCore(registers, memory, halted)
                 IN  /\ registers' = r.registers
                     /\ halted' = r.halted
                     /\ Op("debug", [type |-> "object", stopped |-> r.halted,
                                     address |-> r.registers["pc"]])
       ELSE /\ Op("debug", [type |-> "object", stopped |-> halted,
                            address |-> registers["pc"]])
            /\ UNCHANGED <<registers, halted>>
    /\ UNCHANGED <<heap, memory, interruptsEnabled, breakpoints, stepMode>>
    /\ GhostSame

(***************************************************************************)
(* Snapshots                                                               *)
(***************************************************************************)
\* the object getState() returns: registers is a shallow copy, so its flags and
\* flags_prime entries are the ids of the live flags objects
Snapshot(regs, hp, h, ie) ==
    [registers |-> regs,
     pc |-> regs["pc"],
     sp |-> regs["sp"],
     flags |-> hp[regs["flags"]],
     halted |-> h,
     interruptsEnabled |-> ie]

GetState ==
    /\ Idle
    /\ snap' = Snapshot(registers, heap, halted, interruptsEnabled)
    /\ hasSnap' = TRUE
    /\ Op("getState", [type |-> "object"])
    /\ UNCHANGED <<registers, heap, memory, halted, interruptsEnabled, breakpoints,
                   isDebugging, stepMode, runState>>
    /\ RunGhostClear

\* mutant: the registers part of the input replaces the register file, a
\* register absent from it becoming 0
SetStateRegistersReplace(regs, st) ==
    LET merged == IF "registers" \in DOMAIN st
                  THEN [k \in DOMAIN regs |->
                            IF k \in DOMAIN st.registers THEN st.registers[k]
                            ELSE IF k \in ObjKeys THEN regs[k] ELSE 0]
                  ELSE regs
        withPc == IF "pc" \in DOMAIN st
                  THEN [merged EXCEPT !["pc"] = Mask16(st.pc)] ELSE merged
    IN  IF "sp" \in DOMAIN st THEN [withPc EXCEPT !["sp"] = Mask16(st.sp)] ELSE withPc

\* setState: the registers after the registers, pc and sp parts of the input
SetStateRegisters(regs, st) ==
    LET merged == IF "registers" \in DOMAIN st
                  THEN [k \in DOMAIN regs |->
                            IF k \in DOMAIN st.registers THEN st.registers[k] ELSE regs[k]]
                  ELSE regs
        withPc == IF "pc" \in DOMAIN st
                  THEN [merged EXCEPT !["pc"] = Mask16(st.pc)] ELSE merged
    IN  IF "sp" \in DOMAIN st THEN [withPc EXCEPT !["sp"] = Mask16(st.sp)] ELSE withPc

\* setState: the flags part of the input is written into the object that
\* registers.flags refers to after the registers part was merged
SetStateHeap(hp, regs, st) ==
    LET target == IF "registers" \in DOMAIN st /\ "flags" \in DOMAIN st.registers
                  THEN st.registers["flags"] ELSE regs["flags"]
    IN  IF "flags" \in DOMAIN st
        THEN [hp EXCEPT ![target] =
                [f \in FlagNames |-> IF f \in DOMAIN st.flags THEN st.flags[f] ELSE @[f]]]
        ELSE hp

SetStateHalted(h, st) == IF "halted" \in DOMAIN st THEN st.halted ELSE h

SetState(st) ==
    /\ Idle
    /\ registers' = SetStateRegisters(registers, st)
    /\ heap' = SetStateHeap(heap, registers, st)
    /\ halted' = SetStateHalted(halted, st)
    /\ interruptsEnabled' = IF "interruptsEnabled" \in DOMAIN st
                            THEN st.interruptsEnabled ELSE interruptsEnabled
    /\ Op("setState", Undefined)
    /\ UNCHANGED <<memory, breakpoints, isDebugging, stepMode>>
    /\ GhostSame

\* a caller writes into the object getState() returned
MutateSnapshotRegister(k, v) ==
    /\ Idle /\ hasSnap
    /\ snap' = [snap EXCEPT !.registers[k] = v]
    /\ Op("mutateSnapshot", Undefined)
    /\ UNCHANGED <<registers, heap, memory, halted, interruptsEnabled, breakpoints,
                   isDebugging, stepMode, hasSnap, runState>>
    /\ RunGhostClear

\* snapshot.registers.flags[f] = v or snapshot.registers.flags_prime[f] = v
MutateSnapshotRegistersFlag(key, f, v) ==
    /\ Idle /\ hasSnap
    /\ heap' = [heap EXCEPT ![snap.registers[key]][f] = v]
    /\ Op("mutateSnapshot", Undefined)
    /\ UNCHANGED <<registers, memory, halted, interruptsEnabled, breakpoints,
                   isDebugging, stepMode>>
    /\ GhostSame

\* snapshot.flags[f] = v
MutateSnapshotFlag(f, v) ==
    /\ Idle /\ hasSnap
    /\ snap' = [snap EXCEPT !.flags[f] = v]
    /\ Op("mutateSnapshot", Undefined)
    /\ UNCHANGED <<registers, heap, memory, halted, interruptsEnabled, breakpoints,
                   isDebugging, stepMode, hasSnap, runState>>
    /\ RunGhostClear

\* snapshot.pc, snapshot.sp, snapshot.halted, snapshot.interruptsEnabled
MutateSnapshotField(fld, v) ==
    /\ Idle /\ hasSnap
    /\ snap' = [snap EXCEPT ![fld] = v]
    /\ Op("mutateSnapshot", Undefined)
    /\ UNCHANGED <<registers, heap, memory, halted, interruptsEnabled, breakpoints,
                   isDebugging, stepMode, hasSnap, runState>>
    /\ RunGhostClear

(***************************************************************************)
(* JavaScript values and strings used by the components.  A string is the  *)
(* sequence of its characters.                                             *)
(***************************************************************************)
JsNull == [type |-> "null"]
NaN == [type |-> "NaN"]
IsNumber(v) == v.type = "number"

\* ToNumber(v) for the values an operand takes: null converts to 0
ToNumber(v) == IF v = JsNull THEN Num(0) ELSE v
\* v >= n and v <= n: false when v is NaN
GreaterEq(v, n) == IsNumber(ToNumber(v)) /\ ToNumber(v).value >= n
LessEq(v, n) == IsNumber(ToNumber(v)) /\ ToNumber(v).value <= n
\* v - n: NaN when v is NaN
Minus(v, n) == IF IsNumber(ToNumber(v)) THEN Num(ToNumber(v).value - n) ELSE NaN
\* v & 0xFF and (v >> 8) & 0xFF: ToInt32 takes NaN to 0
LowByte(v) == IF IsNumber(ToNumber(v)) THEN ToNumber(v).value % 256 ELSE 0
SecondByte(v) == IF IsNumber(ToNumber(v)) THEN (ToNumber(v).value \div 256) % 256 ELSE 0

\* of the characters the inputs are written with, the blank and the newline
\* are white space
WhiteSpace == {" ", "\n"}
HexDigits == <<"0", "1", "2", "3", "4", "5", "6", "7", "8", "9", "a", "b", "c", "d", "e", "f",
               "A", "B", "C", "D", "E", "F">>
NotADigit == 36
\* the value of a character as a digit of parseInt
DigitValue(c) ==
    IF \E i \in 1..Len(HexDigits) : c = HexDigits[i]
    THEN LET i == CHOOSE i \in 1..Len(HexDigits) : c = HexDigits[i]
         IN  IF i <= 16 THEN i - 1 ELSE i - 7
    ELSE NotADigit

startsWith(str, prefix) ==
    Len(str) >= Len(prefix) /\ SubSeq(str, 1, Len(prefix)) = prefix
endsWith(str, suffix) ==
    Len(str) >= Len(suffix) /\ SubSeq(str, Len(str) - Len(suffix) + 1, Len(str)) = suffix
\* str.substring(from) and str.slice(0, -1)
substring(str, from) == SubSeq(str, from + 1, Len(str))
dropLast(str) == SubSeq(str, 1, Len(str) - 1)

RECURSIVE trimStart(_)
trimStart(str) ==
    IF str # <<>> /\ Head(str) \in WhiteSpace THEN trimStart(Tail(str)) ELSE str
RECURSIVE trimEnd(_)
trimEnd(str) ==
    IF str # <<>> /\ str[Len(str)] \in WhiteSpace THEN trimEnd(dropLast(str)) ELSE str
trim(str) == trimEnd(trimStart(str))

\* str.indexOf(c): the 0-based position of the first c, or -1
indexOf(str, c) ==
    IF \E i \in 1..Len(str) : str[i] = c
    THEN (CHOOSE i \in 1..Len(str) : str[i] = c /\ \A j \in 1..(i - 1) : str[j] # c) - 1
    ELSE -1

\* str.split('\n')
RECURSIVE split(_)
split(str) ==
    IF indexOf(str, "\n") = -1 THEN <<str>>
    ELSE <<SubSeq(str, 1, indexOf(str, "\n"))>>
         \o split(substring(str, indexOf(str, "\n") + 1))

\* the digits parseInt reads: the longest run of digits of the radix
RECURSIVE parseDigits(_, _, _)
parseDigits(str, radix, acc) ==
    IF str = <<>> \/ DigitValue(Head(str)) >= radix THEN acc
    ELSE parseDigits(Tail(str), radix, acc * radix + DigitValue(Head(str)))

\* parseInt on a string without leading white space or sign: for radix 16 a
\* 0x prefix is skipped; NaN when no digit follows
parseUnsigned(str, radix, sign) ==
    IF str = <<>> \/ DigitValue(Head(str)) >= radix THEN NaN
    ELSE Num(sign * parseDigits(str, radix, 0))
stripRadixPrefix(str, radix) ==
    IF radix = 16 /\ (startsWith(str, <<"0", "x">>) \/ startsWith(str, <<"0", "X">>))
    THEN substring(str, 2) ELSE str
parseSigned(str, radix) ==
    IF startsWith(str, <<"-">>) THEN parseUnsigned(stripRadixPrefix(Tail(str), radix), radix, -1)
    ELSE IF startsWith(str, <<"+">>)
    THEN parseUnsigned(stripRadixPrefix(Tail(str), radix), radix, 1)
    ELSE parseUnsigned(stripRadixPrefix(str, radix), radix, 1)

\* parseInt(str, radix): leading white space, a sign, for radix 16 a 0x
\* prefix, then digits up to the first character that is not one; NaN when
\* there is no digit
parseInt(str, radix) == parseSigned(trimStart(str), radix)

(***************************************************************************)
(* AsmEditor                                                               *)
(***************************************************************************)
\* Object.entries(Z80_INSTRUCTIONS), in insertion order; operands is the
\* first element of the operands array, "none" when the entry has none
Z80_INSTRUCTIONS ==
    << [pattern |-> <<"L", "D", " ", "A", ",">>, opcode |-> 62, bytes |-> 2, operands |-> "immediate"],
       [pattern |-> <<"L", "D", " ", "B", ",">>, opcode |-> 6, bytes |-> 2, operands |-> "immediate"],
       [pattern |-> <<"L", "D", " ", "C", ",">>, opcode |-> 14, bytes |-> 2, operands |-> "immediate"],
       [pattern |-> <<"L", "D", " ", "D", ",">>, opcode |-> 22, bytes |-> 2, operands |-> "immediate"],
       [pattern |-> <<"L", "D", " ", "E", ",">>, opcode |-> 30, bytes |-> 2, operands |-> "immediate"],
       [pattern |-> <<"L", "D", " ", "H", ",">>, opcode |-> 38, bytes |-> 2, operands |-> "immediate"],
       [pattern |-> <<"L", "D", " ", "L", ",">>, opcode |-> 46, bytes |-> 2, operands |-> "immediate"],
       [pattern |-> <<"L", "D", " ", "B", "C", ",">>, opcode |-> 1, bytes |-> 3, operands |-> "immediate16"],
       [pattern |-> <<"L", "D", " ", "D", "E", ",">>, opcode |-> 17, bytes |-> 3, operands |-> "immediate16"],
       [pattern |-> <<"L", "D", " ", "H", "L", ",">>, opcode |-> 33, bytes |-> 3, operands |-> "immediate16"],
       [pattern |-> <<"L", "D", " ", "S", "P", ",">>, opcode |-> 49, bytes |-> 3, operands |-> "immediate16"],
       [pattern |-> <<"L", "D", " ", "A", ",", "B">>, opcode |-> 120, bytes |-> 1, operands |-> "none"],
       [pattern |-> <<"L", "D", " ", "A", ",", "C">>, opcode |-> 121, bytes |-> 1, operands |-> "none"],
       [pattern |-> <<"L", "D", " ", "A", ",", "D">>, opcode |-> 122, bytes |-> 1, operands |-> "none"],
       [pattern |-> <<"L", "D", " ", "A", ",", "E">>, opcode |-> 123, bytes |-> 1, operands |-> "none"],
       [pattern |-> <<"L", "D", " ", "A", ",", "H">>, opcode |-> 124, bytes |-> 1, operands |-> "none"],
       [pattern |-> <<"L", "D", " ", "A", ",", "L">>, opcode |-> 125, bytes |-> 1, operands |-> "none"],
       [pattern |-> <<"L", "D", " ", "A", ",", "(", "H", "L", ")">>, opcode |-> 126, bytes |-> 1, operands |-> "none"],
       [pattern |-> <<"L", "D", " ", "(", "H", "L", ")", ",", "A">>, opcode |-> 119, bytes |-> 1, operands |-> "none"],
       [pattern |-> <<"A", "D", "D", " ", "A", ",">>, opcode |-> 198, bytes |-> 2, operands |-> "immediate"],
       [pattern |-> <<"S", "U", "B", " ">>, opcode |-> 214, bytes |-> 2, operands |-> "immediate"],
       [pattern |-> <<"A", "N", "D", " ">>, opcode |-> 230, bytes |-> 2, operands |-> "immediate"],
       [pattern |-> <<"O", "R", " ">>, opcode |-> 246, bytes |-> 2, operands |-> "immediate"],
       [pattern |-> <<"X", "O", "R", " ">>, opcode |-> 238, bytes |-> 2, operands |-> "immediate"],
       [pattern |-> <<"C", "P", " ">>, opcode |-> 254, bytes |-> 2, operands |-> "immediate"],
       [pattern |-> <<"J", "P", " ">>, opcode |-> 195, bytes |-> 3, operands |-> "immediate16"],
       [pattern |-> <<"J", "R", " ">>, opcode |-> 24, bytes |-> 2, operands |-> "relative"],
       [pattern |-> <<"C", "A", "L", "L", " ">>, opcode |-> 205, bytes |-> 3, operands |-> "immediate16"],
       [pattern |-> <<"R", "E", "T">>, opcode |-> 201, bytes |-> 1, operands |-> "none"],
       [pattern |-> <<"N", "O", "P">>, opcode |-> 0, bytes |-> 1, operands |-> "none"],
       [pattern |-> <<"H", "A", "L", "T">>, opcode |-> 118, bytes |-> 1, operands |-> "none"] >>

\* parseImmediate after its str = str.trim(): hexadecimal, binary or decimal
\* by prefix or suffix
parseTrimmedImmediate(str) ==
    IF startsWith(str, <<"0", "x">>) THEN parseInt(substring(str, 2), 16)
    ELSE IF startsWith(str, <<"$">>) THEN parseInt(substring(str, 1), 16)
    ELSE IF endsWith(str, <<"h">>) \/ endsWith(str, <<"H">>) THEN parseInt(dropLast(str), 16)
    ELSE IF startsWith(str, <<"0", "b">>) THEN parseInt(substring(str, 2), 2)
    ELSE IF startsWith(str, <<"%">>) THEN parseInt(substring(str, 1), 2)
    ELSE IF endsWith(str, <<"b">>) \/ endsWith(str, <<"B">>) THEN parseInt(dropLast(str), 2)
    ELSE parseInt(str, 10)

parseImmediate(str) == parseTrimmedImmediate(trim(str))

Matched(details, operandValue) ==
    [matched |-> TRUE, matchedInstruction |-> details, operandValue |-> operandValue]

\* the loop of parseLine over the entries of the table, from entry i on:
\* the first entry the line matches, and operandValue as the loop leaves it
RECURSIVE matchInstruction(_, _, _)
\* the line starts with the pattern of entry i, and parsed is what
\* parseImmediate makes of the rest of the line
matchOperand(line, i, operandValue, details, parsed) ==
    IF details.operands = "immediate"
    THEN IF parsed # JsNull /\ GreaterEq(parsed, 0) /\ LessEq(parsed, 255)
         THEN Matched(details, parsed)
         ELSE matchInstruction(line, i + 1, parsed)
    ELSE IF details.operands = "immediate16"
    THEN IF parsed # JsNull /\ GreaterEq(parsed, 0) /\ LessEq(parsed, 65535)
         THEN Matched(details, parsed)
         ELSE matchInstruction(line, i + 1, parsed)
    ELSE IF details.operands = "relative"
    THEN IF parsed # JsNull
         THEN Matched(details, parsed)
         ELSE matchInstruction(line, i + 1, parsed)
    ELSE matchInstruction(line, i + 1, operandValue)

matchEntry(line, i, operandValue, details) ==
    IF line = trim(details.pattern)
    THEN Matched(details, operandValue)
    ELSE IF startsWith(line, details.pattern)
    THEN matchOperand(line, i, operandValue, details,
                      parseImmediate(trim(substring(line, Len(details.pattern)))))
    ELSE matchInstruction(line, i + 1, operandValue)

matchInstruction(line, i, operandValue) ==
    IF i > Len(Z80_INSTRUCTIONS)
    THEN [matched |-> FALSE, operandValue |-> operandValue]
    ELSE matchEntry(line, i, operandValue, Z80_INSTRUCTIONS[i])

\* parseLine from "Generate bytes for the instruction" on, for the matched
\* entry; relativeOffset is operandValue - (currentAddress + 2)
generateBytes(line, lineNumber, currentAddress, details, operandValue, relativeOffset) ==
    IF details.operands = "relative" /\ IsNumber(relativeOffset)
       /\ (relativeOffset.value < -128 \/ relativeOffset.value > 127)
    THEN [error |-> [text |-> "Relative jump out of range", line |-> <<>>,
                     offset |-> relativeOffset.value],
          lineNumber |-> lineNumber, address |-> currentAddress]
    ELSE [bytes |-> <<details.opcode>> \o
                    (IF details.operands = "immediate"
                     THEN <<LowByte(operandValue)>>
                     ELSE IF details.operands = "immediate16"
                     THEN <<LowByte(operandValue), SecondByte(operandValue)>>
                     ELSE IF details.operands = "relative"
                     THEN <<LowByte(relativeOffset)>>
                     ELSE <<>>),
          address |-> currentAddress, instruction |-> line, lineNumber |-> lineNumber]

\* parseLine once the loop over the table has ended with m
parseMatched(line, lineNumber, currentAddress, m) ==
    IF ~m.matched
    THEN [error |-> [text |-> "Unknown instruction", line |-> line, offset |-> 0],
          lineNumber |-> lineNumber, address |-> currentAddress]
    ELSE generateBytes(line, lineNumber, currentAddress, m.matchedInstruction,
                       m.operandValue, Minus(m.operandValue, currentAddress + 2))

\* parseLine on the line without its comment and surrounding white space
parseTrimmed(line, lineNumber, currentAddress) ==
    IF line = <<>>
    THEN [bytes |-> <<>>, address |-> currentAddress]
    ELSE IF endsWith(line, <<":">>)
    THEN [bytes |-> <<>>, address |-> currentAddress, label |-> dropLast(line)]
    ELSE parseMatched(line, lineNumber, currentAddress, matchInstruction(line, 1, JsNull))

\* line.substring(0, commentIndex) when the line has a comment
removeComment(line, commentIndex) ==
    IF commentIndex # -1 THEN SubSeq(line, 1, commentIndex) ELSE line

\* parseLine(line, lineNumber, currentAddress)
parseLine(line, lineNumber, currentAddress) ==
    parseTrimmed(trim(removeComment(line, indexOf(line, ";"))), lineNumber, currentAddress)

\* the second pass of assembleCode from line index on; the first pass only
\* fills a local table of labels that nothing reads
RECURSIVE secondPass(_, _, _, _, _)
\* the body of the second pass for the result of parseLine on line index
secondPassLine(lines, index, currentAddress, program, newErrors, result) ==
    IF "error" \in DOMAIN result
    THEN secondPass(lines, index + 1, currentAddress, program,
                    Append(newErrors, [error |-> result.error, line |-> result.lineNumber]))
    ELSE IF Len(result.bytes) > 0
    THEN secondPass(lines, index + 1, currentAddress + Len(result.bytes),
                    Append(program, [address |-> result.address,
                                     bytes |-> result.bytes,
                                     instruction |-> result.instruction,
                                     lineNumber |-> result.lineNumber]),
                    newErrors)
    ELSE secondPass(lines, index + 1, currentAddress, program, newErrors)

secondPass(lines, index, currentAddress, program, newErrors) ==
    IF index > Len(lines) THEN [program |-> program, errors |-> newErrors]
    ELSE secondPassLine(lines, index, currentAddress, program, newErrors,
                        parseLine(lines[index], index, currentAddress))

\* what assembleCode() returns for the text and the start address
assembleCode(code, startAddress) == secondPass(split(code), 1, startAddress, <<>>, <<>>)

\* program.forEach(item => item.bytes.forEach((byte, index) =>
\*     z80.writeByte(item.address + index, byte)))
RECURSIVE writeProgram(_, _)
writeProgram(mem, program) ==
    IF program = <<>> THEN mem
    ELSE writeProgram(LoadProgramMem(mem, Head(program).bytes, Head(program).address),
                      Tail(program))

\* the App's mount effect: new Z80Core(), reset(), setZ80(emulator)
MountedEngineAt(mem, a, pc, h) ==
    /\ registers = [ResetRegisters([k \in RegNames \cup ObjKeys |->
                        IF k = "flags" THEN 1 ELSE IF k = "flags_prime" THEN 2 ELSE 0])
                    EXCEPT !["a"] = a, !["pc"] = pc]
    /\ heap = [o \in {1, 2} |-> ZeroFlags]
    /\ memory = mem
    /\ halted = h
    /\ interruptsEnabled = FALSE
    /\ breakpoints = {}
    /\ isDebugging = FALSE
    /\ stepMode = FALSE
    /\ hasSnap = FALSE
    /\ snap = NoSnap
    /\ runState = "idle"
    /\ runStart = NoRun
    /\ executed = 0
    /\ bpFetches = {}
    /\ lastOp = "reset"
    /\ ret = Undefined

MountedEngineWith(mem) == MountedEngineAt(mem, 0, 0, FALSE)

\* the App with the Assembly tab just opened
Mounted == MountedEngineWith(EmptyMem) /\ Opened("assembly")

\* the AsmEditor's handlers leave the other components alone
AsmEditorOp(name, r) ==
    /\ lastOp' = name /\ ret' = r
    /\ UNCHANGED <<debugger, registerEditor, app>>
    /\ UNCHANGED <<heap, halted, interruptsEnabled, breakpoints, isDebugging, stepMode>>
    /\ GhostSame

\* the textarea's onChange
HandleCodeChange(newCode) ==
    /\ Idle
    /\ asmEditor' = [asmEditor EXCEPT !.code = newCode]
    /\ AsmEditorOp("AsmEditor.handleCodeChange", Undefined)
    /\ UNCHANGED <<registers, memory>>

\* the start address input's onChange, with the text of the input
HandleStartAddressChange(value) ==
    /\ Idle
    /\ LET address == parseInt(value, 16)
       IN  asmEditor' = IF IsNumber(address) /\ address.value >= 0 /\ address.value <= 65535
                        THEN [asmEditor EXCEPT !.startAddress = address.value]
                        ELSE asmEditor
    /\ AsmEditorOp("AsmEditor.handleStartAddressChange", Undefined)
    /\ UNCHANGED <<registers, memory>>

\* the Assemble button
AssembleCode ==
    /\ Idle
    /\ LET r == assembleCode(asmEditor.code, asmEditor.startAddress)
       IN  /\ asmEditor' = [asmEditor EXCEPT !.assembledProgram = r.program,
                                             !.errors = r.errors]
           /\ AsmEditorOp("AsmEditor.assembleCode", [type |-> "object"])
    /\ UNCHANGED <<registers, memory>>

\* the Load Program button
AsmLoadProgram ==
    /\ Idle
    /\ IF Len(asmEditor.assembledProgram) = 0
       THEN LET r == assembleCode(asmEditor.code, asmEditor.startAddress)
            IN  /\ asmEditor' = [asmEditor EXCEPT !.assembledProgram = r.program,
                                                  !.errors = r.errors]
                /\ IF Len(r.errors) > 0
                   THEN UNCHANGED <<registers, memory>>
                   ELSE /\ memory' = writeProgram(memory, r.program)
                        /\ registers' = SetStateRegisters(registers,
                                                          [pc |-> asmEditor.startAddress])
       ELSE /\ UNCHANGED asmEditor
            /\ memory' = writeProgram(memory, asmEditor.assembledProgram)
            /\ registers' = SetStateRegisters(registers, [pc |-> asmEditor.startAddress])
    /\ AsmEditorOp("AsmEditor.loadProgram", Undefined)

(***************************************************************************)
(* Debugger                                                                *)
(***************************************************************************)
\* the Debugger's handlers leave the other components alone
DebuggerOp(name) ==
    /\ lastOp' = name /\ ret' = Undefined
    /\ UNCHANGED <<asmEditor, registerEditor, app>>
    /\ UNCHANGED <<memory, isDebugging, stepMode>>
    /\ GhostSame

\* the execution-loop effect after a render in which running or z80 changed:
\* the old interval is cleared, and while running on an engine that is not
\* halted a new one is set whose callback closes over the executeStep, and
\* with it the breakpoints, of that render
ExecutionLoopEffect(d, h) ==
    IF d.running /\ ~h
    THEN [d EXCEPT !.timer = TRUE, !.timerBreakpoints = d.breakpoints]
    ELSE [d EXCEPT !.timer = FALSE, !.timerBreakpoints = {}]

\* executeStep() of a render whose breakpoints state is bps: the engine and
\* the running state it leaves
ExecuteStep(d, bps) ==
    IF halted
    THEN [registers |-> registers, halted |-> halted, running |-> FALSE]
    ELSE LET r == StepCore(registers, memory, halted)
         IN  [registers |-> r.registers, halted |-> r.halted,
              running |-> IF r.registers["pc"] \in bps \/ r.halted
                          THEN FALSE ELSE d.running]

\* the Run button, enabled while not running and not halted
StartExecution ==
    /\ Idle
    /\ ~debugger.running /\ ~halted
    /\ debugger' = ExecutionLoopEffect([debugger EXCEPT !.running = TRUE], halted)
    /\ DebuggerOp("Debugger.startExecution")
    /\ UNCHANGED <<registers, heap, halted, interruptsEnabled, breakpoints>>

\* the Stop button, enabled while running
StopExecution ==
    /\ Idle
    /\ debugger.running
    /\ debugger' = ExecutionLoopEffect([debugger EXCEPT !.running = FALSE], halted)
    /\ DebuggerOp("Debugger.stopExecution")
    /\ UNCHANGED <<registers, heap, halted, interruptsEnabled, breakpoints>>

\* the interval fires: the callback the effect installed calls executeStep
TimerTick ==
    /\ Idle
    /\ debugger.timer
    /\ halted \/ InWindow(registers["pc"])
    /\ LET r == ExecuteStep(debugger, debugger.timerBreakpoints)
       IN  /\ registers' = r.registers
           /\ halted' = r.halted
           /\ debugger' = IF r.running = debugger.running THEN debugger
                          ELSE ExecutionLoopEffect([debugger EXCEPT !.running = r.running],
                                                   r.halted)
    /\ DebuggerOp("Debugger.timer")
    /\ UNCHANGED <<heap, interruptsEnabled, breakpoints>>

\* the Step button, enabled while not running and not halted
ExecuteStepClick ==
    /\ Idle
    /\ ~debugger.running /\ ~halted
    /\ InWindow(registers["pc"])
    /\ LET r == ExecuteStep(debugger, debugger.breakpoints)
       IN  /\ registers' = r.registers
           /\ halted' = r.halted
    /\ UNCHANGED debugger
    /\ DebuggerOp("Debugger.executeStep")
    /\ UNCHANGED <<heap, interruptsEnabled, breakpoints>>

\* the Reset button
ResetExecution ==
    /\ Idle
    /\ debugger' = ExecutionLoopEffect([debugger EXCEPT !.running = FALSE], FALSE)
    /\ registers' = ResetRegisters(registers)
    /\ heap' = ResetHeap(heap, registers)
    /\ halted' = FALSE
    /\ interruptsEnabled' = FALSE
    /\ DebuggerOp("Debugger.resetExecution")
    /\ UNCHANGED breakpoints

\* a click on a line of the listing: the running state is not touched, so
\* the effect does not run again
DebuggerToggleBreakpoint(address) ==
    /\ Idle
    /\ IF address \in debugger.breakpoints
       THEN /\ debugger' = [debugger EXCEPT !.breakpoints = @ \ {address}]
            /\ breakpoints' = BreakpointsAfterClear(breakpoints, address)
       ELSE /\ debugger' = [debugger EXCEPT !.breakpoints = @ \cup {address}]
            /\ breakpoints' = BreakpointsAfterSet(breakpoints, address)
    /\ DebuggerOp("Debugger.toggleBreakpoint")
    /\ UNCHANGED <<registers, heap, halted, interruptsEnabled>>

\* the Clear Breakpoints button
DebuggerClearAllBreakpoints ==
    /\ Idle
    /\ debugger' = [debugger EXCEPT !.breakpoints = {}]
    /\ breakpoints' = {}
    /\ DebuggerOp("Debugger.clearAllBreakpoints")
    /\ UNCHANGED <<registers, heap, halted, interruptsEnabled>>

(***************************************************************************)
(* App, RegisterEditor and MemoryEditor                                    *)
(***************************************************************************)
\* setZ80(prevZ80 => ({ ...prevZ80 })): the new handle is a plain object with
\* the own properties of the old one: it shares registers, memory and
\* breakpoints with it, holds its own copy of halted, and has none of the
\* methods of Z80Core.prototype
SpreadHandle(a, h) ==
    [a EXCEPT !.prototype = "Object",
              !.halted = IF a.prototype = "Z80Core" THEN h ELSE a.halted]

\* the methods of Z80Core can be called on the handle
HandleIsInstance == app.prototype = "Z80Core"

\* the RegisterEditor's state-sync effect: setRegisters(state.registers) and
\* setFlags(state.flags) of z80.getState()
SyncedRegisterEditor(regs, hp, h, ie) ==
    [registers |-> Snapshot(regs, hp, h, ie).registers,
     flags |-> Snapshot(regs, hp, h, ie).flags]

\* the handlers of the two editors leave the other components alone
EditorOp(name) ==
    /\ lastOp' = name /\ ret' = Undefined
    /\ UNCHANGED <<asmEditor, debugger>>
    /\ UNCHANGED <<interruptsEnabled, breakpoints, isDebugging, stepMode>>
    /\ GhostSame

Clamp(low, high, n) == IF n < low THEN low ELSE IF n > high THEN high ELSE n

\* parseInt(value, 16), 0 for NaN
HexValue(value) == IF IsNumber(parseInt(value, 16)) THEN parseInt(value, 16).value ELSE 0

\* numValue of RegisterEditor.handleRegisterChange
RegisterValue(register, value) ==
    IF register \in Reg8 THEN Clamp(0, 255, HexValue(value))
    ELSE IF register \in Reg16 THEN Clamp(0, 65535, HexValue(value))
    ELSE HexValue(value)

\* RegisterEditor.handleRegisterChange(register, value), with the App's
\* handleRegisterChange it notifies
HandleRegisterEdit(register, value) ==
    /\ Idle
    /\ HandleIsInstance /\ app.activeTab = "registers"
    /\ LET numValue == RegisterValue(register, value)
           newState == [registers |-> [registerEditor.registers EXCEPT ![register] = numValue]]
       IN  /\ registers' = SetStateRegisters(registers, newState)
           /\ heap' = SetStateHeap(heap, registers, newState)
           /\ registerEditor' = [registerEditor EXCEPT !.registers[register] = numValue]
    /\ app' = SpreadHandle(app, halted)
    /\ EditorOp("RegisterEditor.handleRegisterChange")
    /\ UNCHANGED <<memory, halted>>

\* RegisterEditor.handleFlagChange(flag, checked), with the App's
\* handleRegisterChange it notifies
HandleFlagEdit(flag, checked) ==
    /\ Idle
    /\ HandleIsInstance /\ app.activeTab = "registers"
    /\ LET value == IF checked THEN 1 ELSE 0
           newState == [flags |-> [registerEditor.flags EXCEPT ![flag] = value]]
       IN  /\ registers' = SetStateRegisters(registers, newState)
           /\ heap' = SetStateHeap(heap, registers, newState)
           /\ registerEditor' = [registerEditor EXCEPT !.flags[flag] = value]
    /\ app' = SpreadHandle(app, halted)
    /\ EditorOp("RegisterEditor.handleFlagChange")
    /\ UNCHANGED <<memory, halted>>

\* the Reset Registers button: z80.reset()
ResetRegistersClick ==
    /\ Idle
    /\ HandleIsInstance /\ app.activeTab = "registers"
    /\ registers' = ResetRegisters(registers)
    /\ heap' = ResetHeap(heap, registers)
    /\ halted' = FALSE
    /\ lastOp' = "RegisterEditor.reset" /\ ret' = Undefined
    /\ interruptsEnabled' = FALSE
    /\ UNCHANGED <<memory, breakpoints, isDebugging, stepMode, components>>
    /\ GhostSame

\* the Exchange Register Sets button: z80.exchangeRegisterSets()
ExchangeRegisterSetsClick ==
    /\ Idle
    /\ HandleIsInstance /\ app.activeTab = "registers"
    /\ registers' = ExchangedRegisters(registers)
    /\ EditorOp("RegisterEditor.exchangeRegisterSets")
    /\ UNCHANGED <<heap, memory, halted, registerEditor, app>>

\* MemoryEditor.handleMemoryChange(address, value), with the App's
\* handleMemoryChange it notifies
HandleMemoryEdit(address, value) ==
    /\ Idle
    /\ HandleIsInstance /\ app.activeTab = "memory"
    /\ memory' = WriteByte(memory, address, Clamp(0, 255, HexValue(value)))
    /\ app' = SpreadHandle(app, halted)
    /\ EditorOp("MemoryEditor.handleMemoryChange")
    /\ UNCHANGED <<registers, heap, halted, registerEditor>>

\* a click on a tab of the App: the component of the old tab is unmounted
\* and that of the new one mounted, the RegisterEditor running its effect
SetActiveTab(tab) ==
    /\ Idle
    /\ HandleIsInstance /\ app.activeTab # tab
    /\ app' = [app EXCEPT !.activeTab = tab]
    /\ registerEditor' = IF tab = "registers"
                         THEN SyncedRegisterEditor(registers, heap, halted, interruptsEnabled)
                         ELSE RegisterEditorInit
    /\ EditorOp("App.setActiveTab")
    /\ UNCHANGED <<registers, heap, memory, halted>>

(***************************************************************************)
(* Spec: the engine under its public operations                            *)
(***************************************************************************)
Next ==
    \/ Reset
    \/ Step
    \/ RunEnter
    \/ RunExitHalted
    \/ RunBreak
    \/ RunStepInWindow
    \/ Debug
    \/ \E w \in WriteInputs : DoWriteByte(w[1], w[2])
    \/ \E a \in BpInputs : SetBreakpoint(a)
    \/ \E a \in BpInputs : ClearBreakpoint(a)
    \/ \E a \in BpInputs : ToggleBreakpoint(a)
    \/ ClearAllBreakpoints
    \/ \E st \in StateInputs : SetState(st)

Spec == Init /\ [][Next]_vars

(***************************************************************************)
(* SpecRegs: the register file under its setters, reset and setState       *)
(***************************************************************************)
\* the last input restores the index, special and 16-bit registers and the
\* execution state in one call
RegStateInputs ==
    { [registers |-> [a |-> 256]],
      [flags |-> [z |-> 1]],
      [registers |-> [ix |-> 4660, iy |-> 22136, i |-> 3, r |-> 5],
       pc |-> 65540, sp |-> 65538, halted |-> TRUE, interruptsEnabled |-> TRUE] }

NextRegs ==
    \/ Reset
    \/ \E v \in WordInputs : SetBC(v)
    \/ \E v \in WordInputs : SetDE(v)
    \/ \E v \in WordInputs : SetHL(v)
    \/ \E v \in FInputs : SetF(v)
    \/ ExchangeRegisterSets
    \/ \E st \in RegStateInputs : SetState(st)

SpecRegs == Init /\ [][NextRegs]_vars

(***************************************************************************)
(* SpecFlags: the F register under setF with every byte, setF(getF()) and   *)
(* setState with a flags field                                             *)
(***************************************************************************)
Bytes == 0..(ByteSize - 1)

\* setState({flags: {h: 2, zz: 1}}) and setState({flags: {s: 2, z: 1}})
FlagStateInputs ==
    { [flags |-> [h |-> 2, zz |-> 1]],
      [flags |-> [s |-> 2, z |-> 1]] }

NextFlags ==
    \/ \E b \in Bytes : SetF(b)
    \/ SetF(GetF(Flags))
    \/ \E st \in FlagStateInputs : SetState(st)

SpecFlags == Init /\ [][NextFlags]_vars

(***************************************************************************)
(* SpecRestore: getState() followed at once by setState() with the object  *)
(* it returned                                                             *)
(***************************************************************************)
RestoreStateInputs ==
    { [registers |-> [pc |-> 65540]],
      [halted |-> TRUE, interruptsEnabled |-> TRUE] }

\* setState(snapshot), the snapshot being the one getState() has just returned
RestoreSnapshot == hasSnap /\ lastOp = "getState" /\ SetState(snap)

NextRestore ==
    \/ GetState
    \/ RestoreSnapshot
    \/ ExchangeRegisterSets
    \/ \E v \in FInputs : SetF(v)
    \/ \E v \in WordInputs : SetHL(v)
    \/ \E st \in RestoreStateInputs : SetState(st)

SpecRestore == Init /\ [][NextRestore]_vars

(***************************************************************************)
(* SpecPartial: setState() with partial inputs on an engine that holds     *)
(* memory, breakpoints, flags and exchanged register sets                  *)
(***************************************************************************)
\* the registers of the snapshot of a constructed engine with A edited, as an
\* editor passes them back: {...snapshot.registers, a: 7}
EditedRegisters ==
    [k \in RegNames \cup ObjKeys |->
        IF k = "flags" THEN 1 ELSE IF k = "flags_prime" THEN 2
        ELSE IF k = "a" THEN 7 ELSE 0]

PartialStateInputs ==
    { [registers |-> [a |-> 7, zz |-> 7]],
      [registers |-> EditedRegisters],
      [flags |-> [z |-> 1, zz |-> 1]],
      [pc |-> 65541],
      [sp |-> 65538],
      [halted |-> TRUE],
      [interruptsEnabled |-> TRUE] }

NextPartial ==
    \/ \E st \in PartialStateInputs : SetState(st)
    \/ \E v \in FInputs : SetF(v)
    \/ ExchangeRegisterSets
    \/ DoWriteByte(0, OpLdAn)
    \/ SetBreakpoint(1)

SpecPartial == Init /\ [][NextPartial]_vars

(***************************************************************************)
(* SpecStack: the stack operations                                         *)
(***************************************************************************)
StackStateInputs == { [sp |-> 65536], [registers |-> [sp |-> 65536]] }

\* writeWord(address, value): at 0xFFFF (the high byte goes to 0), at 0x1FFFE
\* (stored at 0xFFFE) and a value that clears the two cells again
WordWriteInputs == {<<65535, 74565>>, <<131070, 4660>>, <<65535, 65536>>}

NextStack ==
    \/ Reset
    \/ \E v \in WordInputs : PushStack(v)
    \/ PopStack
    \/ \E st \in StackStateInputs : SetState(st)
    \/ \E w \in WordWriteInputs : DoWriteWord(w[1], w[2])

SpecStack == Init /\ [][NextStack]_vars

(***************************************************************************)
(* SpecSnap: a caller holding the object getState() returned               *)
(***************************************************************************)
SnapStateInputs == { [flags |-> [z |-> 1]] }

\* step() is explored from the PC of the constructed engine only
StepAtZero == registers["pc"] = 0 /\ Step

NextSnap ==
    \/ GetState
    \/ MutateSnapshotRegister("a", 9)
    \/ \E key \in ObjKeys : MutateSnapshotRegistersFlag(key, "z", 1)
    \/ MutateSnapshotFlag("c", 1)
    \/ MutateSnapshotField("pc", 9)
    \/ SetF(255)
    \/ \E st \in SnapStateInputs : SetState(st)
    \/ ExchangeRegisterSets
    \/ StepAtZero

SpecSnap == Init /\ [][NextSnap]_vars

(***************************************************************************)
(* SpecOpcodes: step() on every opcode byte, at address 0 and at 0xFFFF     *)
(***************************************************************************)
OpcodeStateInputs == { [pc |-> 65535] }

\* the byte written at 0xFFFF: an opcode the engine does not decode
TopOpcode == 255

StepAtTop == registers["pc"] = MemSize - 1 /\ Step

NextOpcodes ==
    \/ \E b \in Bytes : DoWriteByte(0, b)
    \/ DoWriteByte(MemSize - 1, TopOpcode)
    \/ StepAtZero
    \/ StepAtTop
    \/ \E st \in OpcodeStateInputs : SetState(st)
    \/ Reset

SpecOpcodes == Init /\ [][NextOpcodes]_vars

(***************************************************************************)
(* SpecRun: run() followed iteration by iteration over the whole address   *)
(* space, from a few starting states                                       *)
(***************************************************************************)
\* memory, breakpoints and PC as the public operations leave them:
\* writeByte(3, 0x76), writeByte(0, 0x3E), setBreakpoint(4), setBreakpoint(1),
\* setState({pc: 65534}), setState({registers: {pc: 65540}}), setState({halted: true})
RunConfigs ==
    { [mem |-> EmptyMem, bps |-> {}, pc |-> 0, halted |-> FALSE],
      [mem |-> EmptyMem, bps |-> {4}, pc |-> 0, halted |-> FALSE],
      [mem |-> EmptyMem, bps |-> {4}, pc |-> 4, halted |-> FALSE],
      [mem |-> EmptyMem, bps |-> {4}, pc |-> 65540, halted |-> FALSE],
      [mem |-> WriteByte(EmptyMem, 3, OpHalt), bps |-> {}, pc |-> 65534, halted |-> FALSE],
      [mem |-> WriteByte(EmptyMem, 3, OpHalt), bps |-> {4}, pc |-> 0, halted |-> FALSE],
      [mem |-> WriteByte(EmptyMem, 0, OpLdAn), bps |-> {1}, pc |-> 1, halted |-> FALSE],
      [mem |-> EmptyMem, bps |-> {4}, pc |-> 0, halted |-> TRUE] }

InitRun ==
    /\ \E cfg \in RunConfigs :
          /\ registers = [k \in RegNames \cup ObjKeys |->
                              IF k = "flags" THEN 1 ELSE IF k = "flags_prime" THEN 2
                              ELSE IF k = "pc" THEN cfg.pc ELSE 0]
          /\ memory = cfg.mem
          /\ breakpoints = cfg.bps
          /\ halted = cfg.halted
    /\ heap = [o \in {1, 2} |-> ZeroFlags]
    /\ interruptsEnabled = FALSE
    /\ isDebugging = FALSE
    /\ stepMode = FALSE
    /\ GhostInit
    /\ Unmounted

NextRun ==
    \/ RunEnter
    \/ RunExitHalted
    \/ RunBreak
    \/ RunStep

\* run() is a synchronous loop: once entered it keeps iterating
SpecRun == InitRun /\ [][NextRun]_vars /\ WF_vars(RunIter)

(***************************************************************************)
(* SpecScenario: a breakpoint, a program of NOPs closed by a HALT, reset,  *)
(* run                                                                     *)
(***************************************************************************)
NopsThenHalt(n) == [i \in 1..(n + 1) |-> IF i <= n THEN OpNop ELSE OpHalt]

ScenarioStateInputs == { [pc |-> 2], [halted |-> TRUE] }

NextScenario ==
    \/ \E n \in 1..MaxNops : breakpoints = {} /\ SetBreakpoint(n)
    \/ \E n \in 1..MaxNops : memory = EmptyMem /\ LoadProgram(NopsThenHalt(n), 0)
    \/ \E st \in ScenarioStateInputs : SetState(st)
    \/ Reset
    \/ lastOp = "reset" /\ breakpoints # {} /\ memory # EmptyMem /\ RunEnter
    \/ RunExitHalted
    \/ RunBreak
    \/ RunStep

SpecScenario == Init /\ [][NextScenario]_vars

(***************************************************************************)
(* SpecAsm: the AsmEditor tab of the mounted App: edits of the text and of *)
(* the start address, Assemble, Load Program, and one step() of the engine *)
(* on the program just loaded                                              *)
(***************************************************************************)
CodeInputs ==
    { <<"L", "D", " ", "A", ",", "0", "x", "4", "2", "\n", "H", "A", "L", "T">>,
      <<"L", "D", " ", "B", ",", "5">>,
      <<"J", "P", " ", "4", " ", ";", " ", "g", "o", "\n", "F", "O", "O">> }
\* 0x0000, 0x0080 and a text that is no hexadecimal number
StartAddressInputs == { <<"0">>, <<"8", "0">>, <<"z", "z">> }

StepLoaded == lastOp = "AsmEditor.loadProgram" /\ Step

NextAsm ==
    \/ \E newCode \in CodeInputs : HandleCodeChange(newCode)
    \/ \E value \in StartAddressInputs : HandleStartAddressChange(value)
    \/ AssembleCode
    \/ AsmLoadProgram
    \/ StepLoaded

SpecAsm == Mounted /\ [][NextAsm]_vars

(***************************************************************************)
(* SpecJr: the assembler on relative jumps: edits of the text and of the   *)
(* start address, and Assemble                                             *)
(***************************************************************************)
JrCodeInputs ==
    { <<"J", "R", " ", "1", "0">>,
      <<"N", "O", "P", "\n", "J", "R", " ", "0">>,
      <<"l", "o", "o", "p", ":", "\n", "J", "R", " ", "l", "o", "o", "p">>,
      <<"J", "R", " ", "2", "0", "0", " ", ";", " ", "f", "a", "r">>,
      <<"J", "R", " ", "0", "x", "9", "0">> }

NextJr ==
    \/ \E newCode \in JrCodeInputs : HandleCodeChange(newCode)
    \/ \E value \in StartAddressInputs : HandleStartAddressChange(value)
    \/ AssembleCode

SpecJr == Mounted /\ [][NextJr]_vars

(***************************************************************************)
(* SpecDebugger: the Debugger tab opened on a program of NOPs closed by a  *)
(* HALT: Run, Stop, Step, Reset, the interval timer, and breakpoints       *)
(* toggled on lines of the listing                                         *)
(***************************************************************************)
DebuggerProgram == <<OpNop, OpNop, OpNop, OpHalt>>
ListingAddresses == {1, 2}

InitDebugger ==
    /\ MountedEngineWith(LoadProgramMem(EmptyMem, DebuggerProgram, 0))
    /\ Opened("debug")

NextDebugger ==
    \/ StartExecution
    \/ StopExecution
    \/ TimerTick
    \/ ExecuteStepClick
    \/ ResetExecution
    \/ \E address \in ListingAddresses : DebuggerToggleBreakpoint(address)
    \/ DebuggerClearAllBreakpoints

SpecDebugger == InitDebugger /\ [][NextDebugger]_vars

(***************************************************************************)
(* SpecEditors: the Registers and Memory tabs of the App, opened on a      *)
(* fresh engine or on one that has run LD A,0x42; HALT in the Debugger     *)
(***************************************************************************)
EditorConfigs ==
    { [mem |-> EmptyMem, a |-> 0, pc |-> 0, halted |-> FALSE],
      [mem |-> LoadProgramMem(EmptyMem, <<OpLdAn, 66, OpHalt>>, 0),
       a |-> 66, pc |-> 3, halted |-> TRUE] }
EditorRegisters == {"a", "b", "a_prime", "pc"}
\* 0x05, 0x1FF (above a byte) and a text that is no hexadecimal number
EditTexts == { <<"5">>, <<"1", "F", "F">>, <<"z", "z">> }
EditedFlags == {"s", "c"}
EditedAddresses == {0, 1}
EditorTabs == {"registers", "memory"}

InitEditors ==
    /\ \E cfg \in EditorConfigs :
          /\ MountedEngineAt(cfg.mem, cfg.a, cfg.pc, cfg.halted)
          /\ registerEditor = SyncedRegisterEditor(
                 [ResetRegisters([k \in RegNames \cup ObjKeys |->
                      IF k = "flags" THEN 1 ELSE IF k = "flags_prime" THEN 2 ELSE 0])
                  EXCEPT !["a"] = cfg.a, !["pc"] = cfg.pc],
                 [o \in {1, 2} |-> ZeroFlags], cfg.halted, FALSE)
    /\ asmEditor = AsmEditorInit
    /\ debugger = DebuggerInit
    /\ app = AppInit

NextEditors ==
    \/ \E register \in EditorRegisters, value \in EditTexts :
          HandleRegisterEdit(register, value)
    \/ \E flag \in EditedFlags, checked \in BOOLEAN : HandleFlagEdit(flag, checked)
    \/ ResetRegistersClick
    \/ ExchangeRegisterSetsClick
    \/ \E address \in EditedAddresses, value \in EditTexts : HandleMemoryEdit(address, value)
    \/ \E tab \in EditorTabs : SetActiveTab(tab)

SpecEditors == InitEditors /\ [][NextEditors]_vars

(***************************************************************************)
(* Claims checked under Spec                                               *)
(***************************************************************************)
RunReturned == lastOp = "run" /\ runState = "idle"

\* C2: in every reachable state every 8-bit register holds a value in 0..255
\* and every 16-bit register a value in 0..65535.
C2_RegistersInRange ==
    /\ \A r \in Reg8 : registers[r] \in 0..255
    /\ \A r \in Reg16 : registers[r] \in 0..65535

C5_RunStepsAtLeastOnce ==
    (RunReturned /\ ~runStart.halted) => executed >= 1

\* C8: when run() stops it returns to its caller an object carrying the stop
\* reason and the address at which it stopped.
C8_RunReportsStop ==
    RunReturned => (ret.type = "object" /\ {"reason", "address"} \subseteq DOMAIN ret)

\* C9: step() on HALT in a non-halted state returns true, sets halted, advances
\* the PC by one modulo 65536 and changes nothing else; step() in a halted
\* state returns false and changes nothing.
C9_HaltStep ==
    [][/\ (lastOp' = "step" /\ ~halted /\ ReadByte(memory, registers["pc"]) = OpHalt)
          => /\ ret' = Bool(TRUE)
             /\ halted'
             /\ registers' = [registers EXCEPT !["pc"] = (registers["pc"] + 1) % 65536]
             /\ UNCHANGED <<heap, memory, breakpoints, interruptsEnabled, isDebugging,
                            stepMode>>
       /\ (lastOp' = "step" /\ halted)
          => /\ ret' = Bool(FALSE)
             /\ UNCHANGED <<registers, heap, memory, halted, breakpoints,
                            interruptsEnabled, isDebugging, stepMode>>]_vars

\* a step() that returned true has left the engine halted: it executed HALT
C9_Witness == lastOp = "step" /\ ret = Bool(TRUE) /\ halted

\* C10: step() on LD A,n in a non-halted state returns true, sets A to the byte
\* after the opcode, advances the PC by two modulo 65536 and changes nothing else.
C10_LdAn ==
    [][(lastOp' = "step" /\ ~halted /\ ReadByte(memory, registers["pc"]) = OpLdAn)
       => /\ ret' = Bool(TRUE)
          /\ registers' = [registers EXCEPT
                                !["a"] = ReadByte(memory, registers["pc"] + 1),
                                !["pc"] = (registers["pc"] + 2) % 65536]
          /\ UNCHANGED <<heap, memory, halted, breakpoints, interruptsEnabled,
                         isDebugging, stepMode>>]_vars

\* LD A,n was executed at 0xFFFF: its operand came from 0x0000 and the PC is 1
C10_Witness ==
    /\ lastOp = "step" /\ ret = Bool(TRUE) /\ ~halted
    /\ registers["pc"] = 1
    /\ ReadByte(memory, 65535) = OpLdAn
    /\ ReadByte(memory, 0) # 0
    /\ registers["a"] = ReadByte(memory, 0)

\* C11: step() on NOP in a non-halted state returns true, advances the PC by
\* one modulo 65536 and changes no other register, flag, memory cell,
\* breakpoint or execution-state field.
C11_NopStep ==
    [][(lastOp' = "step" /\ ~halted /\ ReadByte(memory, registers["pc"]) = OpNop)
       => /\ ret' = Bool(TRUE)
          /\ registers' = [registers EXCEPT !["pc"] = (registers["pc"] + 1) % 65536]
          /\ UNCHANGED <<heap, memory, halted, breakpoints, interruptsEnabled,
                         isDebugging, stepMode>>]_vars

\* a NOP was executed at 0xFFFF: the PC wrapped to 0
C11_Witness ==
    /\ lastOp = "step" /\ ret = Bool(TRUE) /\ ~halted
    /\ registers["pc"] = 0
    /\ ReadByte(memory, 65535) = OpNop

\* C13: writeByte(a, v) followed by readByte(a) returns v mod 256, and the
\* write changes only the cell at a mod 65536.
C13_WriteThenRead ==
    [][(lastOp' = "writeByte") =>
          \A w \in WriteInputs :
              DoWriteByte(w[1], w[2]) =>
                  /\ ReadByte(memory', w[1]) = w[2] % 256
                  /\ \A x \in (DOMAIN memory \cup DOMAIN memory') \ {w[1] % 65536} :
                         ReadByte(memory', x) = ReadByte(memory, x)
                  /\ UNCHANGED <<registers, heap, halted, interruptsEnabled, breakpoints>>]_vars

\* writeByte(0x10001, 0x142) is the one write so far: cell 1 reads 0x42
C13_Witness == lastOp = "writeByte" /\ memory = [x \in {1} |-> 66]

\* C21 as stated: setBreakpoint, clearBreakpoint, toggleBreakpoint and
\* clearAllBreakpoints are each idempotent on the breakpoint set (the same
\* operation applied once more to the set it leaves gives that set again), and
\* every member of the set is in 0..65535.
C21_AllIdempotent ==
    [][(lastOp' \in {"setBreakpoint", "clearBreakpoint", "toggleBreakpoint",
                     "clearAllBreakpoints"}) =>
          /\ \A a \in BpInputs :
                /\ SetBreakpoint(a) => BreakpointsAfterSet(breakpoints', a) = breakpoints'
                /\ ClearBreakpoint(a) => BreakpointsAfterClear(breakpoints', a) = breakpoints'
                /\ ToggleBreakpoint(a) => BreakpointsAfterToggle(breakpoints', a) = breakpoints'
          /\ ClearAllBreakpoints => breakpoints' = {}
          /\ breakpoints' \subseteq 0..65535]_vars

\* C21 amended: setBreakpoint, clearBreakpoint and clearAllBreakpoints are
\* idempotent; toggleBreakpoint applied once more to the set it leaves gives
\* back the set it started from, and it returns true exactly when it added the
\* address; every member of the set is in 0..65535.
C21_IdempotentButToggle ==
    [][(lastOp' \in {"setBreakpoint", "clearBreakpoint", "toggleBreakpoint",
                     "clearAllBreakpoints"}) =>
          /\ \A a \in BpInputs :
                /\ SetBreakpoint(a) =>
                      /\ BreakpointsAfterSet(breakpoints', a) = breakpoints'
                      /\ a % 65536 \in breakpoints'
                /\ ClearBreakpoint(a) =>
                      /\ BreakpointsAfterClear(breakpoints', a) = breakpoints'
                      /\ a % 65536 \notin breakpoints'
                /\ ToggleBreakpoint(a) =>
                      /\ BreakpointsAfterToggle(breakpoints', a) = breakpoints
                      /\ ret' = Bool(a % 65536 \in breakpoints')
                      /\ (a % 65536 \in breakpoints') # (a % 65536 \in breakpoints)
          /\ ClearAllBreakpoints => breakpoints' = {}
          /\ breakpoints' \subseteq 0..65535
          /\ UNCHANGED <<registers, heap, memory, halted, interruptsEnabled>>]_vars

\* toggleBreakpoint(0x10004) has removed address 4 while address 1 stays set
C21_Witness ==
    /\ lastOp = "toggleBreakpoint" /\ ret = Bool(FALSE)
    /\ breakpoints = {1}

\* C22: step() in a non-halted state executes exactly one instruction and
\* returns true whether or not the PC is in the breakpoint set, and step()
\* never changes the breakpoint set.
C22_StepIgnoresBreakpoints ==
    [][(lastOp' = "step") =>
          /\ breakpoints' = breakpoints
          /\ ~halted =>
                LET opcode == ReadByte(memory, registers["pc"])
                    length == IF opcode = OpLdAn THEN 2 ELSE 1
                IN  /\ ret' = Bool(TRUE)
                    /\ registers'["pc"] = (registers["pc"] + length) % 65536
                    /\ halted' = (opcode = OpHalt)
                    /\ memory' = memory]_vars

\* step() has executed the one-byte instruction at address 1, a breakpoint
C22_Witness ==
    /\ lastOp = "step" /\ ret = Bool(TRUE)
    /\ registers["pc"] = 2
    /\ 1 \in breakpoints
    /\ ReadByte(memory, 0) # OpLdAn

C12_ResetState ==
    (lastOp = "reset") =>
        /\ registers["pc"] = 0
        /\ registers["sp"] = 65535
        /\ halted = FALSE
        /\ interruptsEnabled = FALSE
        /\ \A k \in RegNames \ {"pc", "sp"} : registers[k] = 0
        /\ \A f \in FlagNames : Flags[f] = 0 /\ FlagsPrime[f] = 0

\* reset() was called while the two flags objects were exchanged
C12_Witness == lastOp = "reset" /\ registers["flags"] = 2 /\ registers["sp"] = 65535

(***************************************************************************)
(* Claims checked under SpecStack                                          *)
(***************************************************************************)
\* C14: writeWord(a, v) followed by readWord(a) returns v mod 65536, with the
\* low byte stored at a and the high byte at (a + 1) mod 65536; for a = 0xFFFF
\* the high byte is stored at and read from 0x0000.
C14_WordRoundTrip ==
    [][(lastOp' = "writeWord") =>
          \A w \in WordWriteInputs :
              DoWriteWord(w[1], w[2]) =>
                  /\ ReadWord(memory', w[1]) = w[2] % 65536
                  /\ ReadByte(memory', w[1]) = w[2] % 256
                  /\ ReadByte(memory', (w[1] + 1) % 65536) = (w[2] \div 256) % 256]_vars

\* writeWord(0xFFFF, 0x12345) was the last operation: 0x45 at 0xFFFF, 0x23 at 0
C14_Witness ==
    /\ lastOp = "writeWord"
    /\ ReadByte(memory, 65535) = 69
    /\ ReadByte(memory, 0) = 35
    /\ ReadWord(memory, 65535) = 9029

\* the register file as a caller reads it: registers and both flag sets
FileView(regs, hp) ==
    <<[k \in RegNames |-> regs[k]], hp[regs["flags"]], hp[regs["flags_prime"]]>>

\* C19: exchangeRegisterSets() applied twice returns the register file (primary
\* and shadow registers, primary and shadow flags) to its prior state: the
\* exchange applied to the state one exchangeRegisterSets() leaves gives back
\* the state before it.
C19_ExchangeTwice ==
    [][ExchangeRegisterSets =>
          FileView(ExchangedRegisters(registers'), heap') = FileView(registers, heap)]_vars

\* the second of two exchanges has acted on sets that differ
C19_Witness ==
    /\ lastOp = "exchangeRegisterSets"
    /\ registers["flags"] = 1
    /\ registers["a"] = 256 /\ registers["a_prime"] = 0
    /\ registers["h"] # registers["h_prime"]
    /\ Flags # FlagsPrime

\* C20: one exchangeRegisterSets() gives each of A, B, C, D, E, H, L the
\* previous value of its shadow and vice versa, gives the primary flags the
\* previous shadow flags and vice versa, and leaves IX, IY, SP, PC, I, R,
\* halted, interruptsEnabled, memory and the breakpoint set unchanged.
C20_ExchangeFrame ==
    [][ExchangeRegisterSets =>
          /\ \A k \in {"a", "b", "c", "d", "e", "h", "l"} :
                LET shadow == CASE k = "a" -> "a_prime" [] k = "b" -> "b_prime"
                                [] k = "c" -> "c_prime" [] k = "d" -> "d_prime"
                                [] k = "e" -> "e_prime" [] k = "h" -> "h_prime"
                                [] k = "l" -> "l_prime"
                IN  registers'[k] = registers[shadow] /\ registers'[shadow] = registers[k]
          /\ Flags' = FlagsPrime
          /\ FlagsPrime' = Flags
          /\ \A k \in {"ix", "iy", "sp", "pc", "i", "r"} : registers'[k] = registers[k]
          /\ UNCHANGED <<halted, interruptsEnabled, memory, breakpoints>>]_vars

\* one exchange has acted on an engine with IX, IY, I, R, PC, SP and the
\* execution state set: the values set in the primary set are in the shadow set
C20_Witness ==
    /\ lastOp = "exchangeRegisterSets"
    /\ registers["flags"] = 2
    /\ registers["a_prime"] = 256 /\ registers["a"] = 0
    /\ GetF(FlagsPrime) = 215 /\ GetF(Flags) = 0
    /\ registers["ix"] = 4660 /\ registers["pc"] = 4 /\ registers["sp"] = 2
    /\ halted /\ interruptsEnabled

(***************************************************************************)
(* Claims checked under SpecFlags                                          *)
(***************************************************************************)
AllBits(fl) == \A f \in FlagNames : fl[f] \in {0, 1}

\* C15: setF(b) followed by getF() returns b AND 0xD7 for every byte b, with
\* S at bit 7, Z at bit 6, H at bit 4, P/V at bit 2, N at bit 1 and C at bit 0;
\* and setF(getF()) leaves every combination of the six flags unchanged.
C15_FlagsRoundTrip ==
    [][(lastOp' = "setF") =>
          /\ \A b \in Bytes :
                SetF(b) =>
                    /\ GetF(Flags') = BitAnd(b, 215)
                    /\ Flags'["s"] = BitAnd(b, 128) \div 128
                    /\ Flags'["z"] = BitAnd(b, 64) \div 64
                    /\ Flags'["h"] = BitAnd(b, 16) \div 16
                    /\ Flags'["pv"] = BitAnd(b, 4) \div 4
                    /\ Flags'["n"] = BitAnd(b, 2) \div 2
                    /\ Flags'["c"] = BitAnd(b, 1)
          /\ (AllBits(Flags) /\ SetF(GetF(Flags))) => Flags' = Flags]_vars

\* setF(0xFF) was the last operation: getF() reads 0xD7
C15_Witness == lastOp = "setF" /\ GetF(Flags) = 215

\* C16: in every reachable state each of the six flags is 0 or 1 and getF()
\* returns a value in 0..255 whose bits 3 and 5 are 0.
C16_FlagsAreBits ==
    /\ AllBits(Flags)
    /\ GetF(Flags) \in 0..255
    /\ BitAnd(GetF(Flags), 40) = 0

LiveView ==
    <<[k \in RegNames |-> registers[k]], Flags, FlagsPrime, halted, interruptsEnabled>>

\* what a caller can observe through the snapshot it holds
SnapView ==
    <<[k \in RegNames |-> snap.registers[k]],
      heap[snap.registers["flags"]], heap[snap.registers["flags_prime"]],
      snap.flags, snap.pc, snap.sp, snap.halted, snap.interruptsEnabled>>

\* C1: writing into the snapshot getState() returned never changes the live
\* engine, and setF, setState and step never change a snapshot already returned.
C1_SnapshotIndependent ==
    [][/\ (hasSnap /\ lastOp' = "mutateSnapshot") => LiveView' = LiveView
       /\ (hasSnap /\ lastOp' \in {"setF", "setState", "step"}) => SnapView' = SnapView]_vars

(***************************************************************************)
(* Claims checked under SpecRestore                                        *)
(***************************************************************************)
\* C17: getState() followed immediately by setState() with the unmodified
\* snapshot leaves every live field unchanged: primary and shadow registers,
\* primary and shadow flags, I, R, IX, IY, PC, SP, halted, interruptsEnabled.
C17_RestoreIsIdentity ==
    [][RestoreSnapshot => LiveView' = LiveView]_vars

(***************************************************************************)
(* Claims checked under SpecPartial                                        *)
(***************************************************************************)
\* the register and flag names an input of setState names
NamedRegisters(st) ==
    (IF "registers" \in DOMAIN st THEN DOMAIN st.registers ELSE {})
        \cup (IF "pc" \in DOMAIN st THEN {"pc"} ELSE {})
        \cup (IF "sp" \in DOMAIN st THEN {"sp"} ELSE {})

NamedFlags(st) == IF "flags" \in DOMAIN st THEN DOMAIN st.flags ELSE {}

\* C18: setState(partial) changes only the fields named in its input: every
\* register, flag, PC, SP, halted and interruptsEnabled field absent from the
\* input keeps its value, memory and the breakpoint set are not changed, and
\* no register name is added to the register file.
C18_PartialUpdate ==
    [][(lastOp' = "setState") =>
          \A st \in PartialStateInputs :
              SetState(st) =>
                  /\ \A k \in RegNames \ NamedRegisters(st) : registers'[k] = registers[k]
                  /\ ("flags" \notin NamedRegisters(st)) =>
                        \A f \in FlagNames \ NamedFlags(st) : Flags'[f] = Flags[f]
                  /\ ("flags_prime" \notin NamedRegisters(st)) => FlagsPrime' = FlagsPrime
                  /\ ("halted" \notin DOMAIN st) => halted' = halted
                  /\ ("interruptsEnabled" \notin DOMAIN st) =>
                        interruptsEnabled' = interruptsEnabled
                  /\ memory' = memory
                  /\ breakpoints' = breakpoints
                  /\ DOMAIN registers' = RegNames \cup ObjKeys
                  /\ \A o \in DOMAIN heap' : DOMAIN heap'[o] = FlagNames]_vars

\* setState({registers: {a: 7, zz: 7}}) has acted on an engine with flags set,
\* register sets exchanged, a byte in memory and a breakpoint
C18_Witness ==
    /\ lastOp = "setState"
    /\ registers["a"] = 7
    /\ registers["flags"] = 2
    /\ GetF(FlagsPrime) = 215
    /\ memory # EmptyMem
    /\ breakpoints # {}
    /\ ~halted

(***************************************************************************)
(* Claims checked under SpecRun                                            *)
(***************************************************************************)
NoLdAn == \A a \in DOMAIN memory : memory[a] # OpLdAn
HasHalt == \E a \in DOMAIN memory : memory[a] = OpHalt

\* C4 as stated: every run() started from a non-halted state returns.
C4_RunTerminates ==
    (runState = "loop" /\ ~runStart.halted) ~> (runState = "idle")

\* C4 amended: run() returns whenever memory holds no LD A,n opcode and the
\* breakpoint set is non-empty or memory holds a HALT opcode.
C4_RunTerminatesWhenStopAhead ==
    (runState = "loop" /\ NoLdAn /\ (breakpoints # {} \/ HasHalt)) ~> (runState = "idle")

\* run() wrapped around the address space before it returned
C4_Witness ==
    /\ RunReturned /\ ~runStart.halted
    /\ NoLdAn /\ (breakpoints # {} \/ HasHalt)
    /\ Mask16(registers["pc"]) < Mask16(runStart.pc)

\* C6: when run() returns, halted is true or the PC modulo 65536 is a
\* breakpoint; if it stopped at a breakpoint, this run() did not execute the
\* instruction at that address; and no iteration after the first fetches an
\* opcode from a breakpoint address.
C6_RunStopsBeforeBreakpoint ==
    /\ RunReturned => (halted \/ Mask16(registers["pc"]) \in breakpoints)
    /\ (RunReturned /\ ~halted) =>
          \A f \in bpFetches : f.address # Mask16(registers["pc"])
    /\ \A f \in bpFetches : f.first

(***************************************************************************)
(* Claims checked under SpecScenario                                       *)
(***************************************************************************)
\* run() has returned, it was called right after reset(), the only
\* breakpoint is n and memory holds n NOPs and a HALT from address 0
ScenarioRan(n) ==
    /\ RunReturned
    /\ runStart.afterReset
    /\ breakpoints = {n}
    /\ memory = LoadProgramMem(EmptyMem, NopsThenHalt(n), 0)

\* C7: with a breakpoint at n, n NOPs and a HALT loaded at 0 and reset()
\* called, run() stops with PC = n, not halted, after exactly n instructions.
C7_RunStopsAfterNNops ==
    \A n \in 1..MaxNops :
        ScenarioRan(n) => (registers["pc"] = n /\ ~halted /\ executed = n)

\* the case of the specification: n = 4
C7_Witness == ScenarioRan(4) /\ registers["pc"] = 4 /\ executed = 4

(***************************************************************************)
(* Claims checked under SpecAsm                                            *)
(***************************************************************************)
\* the registers LD r,n loads, by opcode
LoadTargets == [opcode \in {62, 6, 14, 22, 30, 38, 46} |->
                   CASE opcode = 62 -> "a" [] opcode = 6 -> "b" [] opcode = 14 -> "c"
                     [] opcode = 22 -> "d" [] opcode = 30 -> "e" [] opcode = 38 -> "h"
                     [] opcode = 46 -> "l"]
\* the displacement byte of JR as a signed number
SignedByte(b) == IF b >= 128 THEN b - 256 ELSE b

\* C23: the assembler and the engine agree on the instruction table: one
\* step() on the bytes the assembler emits for an instruction of its table
\* advances the PC by the length of the instruction, or to the target of the
\* jump, and LD r,n loads its operand into r, so that an operand byte is
\* never executed as an opcode.
C23_TableAgreement ==
    [][(lastOp' = "step" /\ ~halted) =>
          \A i \in 1..Len(Z80_INSTRUCTIONS) :
              LET details == Z80_INSTRUCTIONS[i]
                  pc == Mask16(registers["pc"])
              IN  details.opcode = ReadByte(memory, pc) =>
                    /\ registers'["pc"] =
                          IF details.opcode \in {195, 205}
                          THEN ReadWord(memory, pc + 1)
                          ELSE IF details.opcode = 24
                          THEN Mask16(pc + 2 + SignedByte(ReadByte(memory, pc + 1)))
                          ELSE IF details.opcode = 201
                          THEN ReadWord(memory, registers["sp"])
                          ELSE Mask16(pc + details.bytes)
                    /\ details.opcode \in DOMAIN LoadTargets =>
                          registers'[LoadTargets[details.opcode]] = ReadByte(memory, pc + 1)]_vars

\* C29: Load Program writes to memory exactly the bytes the current text
\* assembles to at the current start address, and writes nothing and leaves
\* the PC unchanged when that assembly reports an error, for every order of
\* edits, Assemble, changes of the start address and Load Program.
C29_LoadsCurrentText ==
    [][(lastOp' = "AsmEditor.loadProgram") =>
          LET r == assembleCode(asmEditor.code, asmEditor.startAddress)
          IN  IF Len(r.errors) > 0
              THEN memory' = memory /\ registers'["pc"] = registers["pc"]
              ELSE memory' = writeProgram(memory, r.program)]_vars

(***************************************************************************)
(* Claims checked under SpecJr                                             *)
(***************************************************************************)
\* the bytes of the items of the program that come from lines before line n
RECURSIVE bytesBefore(_, _)
bytesBefore(program, n) ==
    IF program = <<>> THEN 0
    ELSE (IF Head(program).lineNumber < n THEN Len(Head(program).bytes) ELSE 0)
         + bytesBefore(Tail(program), n)

\* C25: for a relative jump JR at address currentAddress with operand target
\* the displacement is target - (currentAddress + 2); outside [-128, 127] the
\* assembler reports an error for the line and emits no bytes for it,
\* otherwise it emits 0x18 and the displacement mod 256; an operand that does
\* not parse to a number is reported as an error rather than encoded.
C25_RelativeJump ==
    lastOp = "AsmEditor.assembleCode" =>
        \A n \in 1..Len(split(asmEditor.code)) :
            LET text == split(asmEditor.code)[n]
                line == trim(removeComment(text, indexOf(text, ";")))
                program == asmEditor.assembledProgram
                target == parseImmediate(substring(line, 3))
                currentAddress == asmEditor.startAddress + bytesBefore(program, n)
                reported == \E k \in 1..Len(asmEditor.errors) : asmEditor.errors[k].line = n
                emitted == { program[k].bytes :
                                k \in { j \in 1..Len(program) : program[j].lineNumber = n } }
            IN  startsWith(line, <<"J", "R", " ">>) =>
                    IF ~IsNumber(target)
                    THEN reported /\ emitted = {}
                    ELSE IF target.value - (currentAddress + 2) < -128
                            \/ target.value - (currentAddress + 2) > 127
                    THEN reported /\ emitted = {}
                    ELSE /\ ~reported
                         /\ emitted = { <<24, (target.value - (currentAddress + 2)) % 256>> }

(***************************************************************************)
(* Claims checked under SpecDebugger                                       *)
(***************************************************************************)
\* C26: during a continuous run in the Debugger execution stops after any
\* step of the interval timer whose resulting PC is in the Debugger's current
\* breakpoint set, including breakpoints toggled while the run is in
\* progress: the timer callback never acts on an outdated copy of the set.
C26_TimerSeesBreakpoints ==
    [][(lastOp' = "Debugger.timer" /\ ~halted) =>
          /\ debugger.timerBreakpoints = debugger.breakpoints
          /\ registers'["pc"] \in debugger.breakpoints => ~debugger'.running]_vars

(***************************************************************************)
(* Claims checked under SpecEditors                                        *)
(***************************************************************************)
\* C27: editing a single register or flag through the RegisterEditor changes
\* only that register or flag in the emulator: every other live register,
\* flag, PC and SP keeps the value it had immediately before the edit, also
\* when the edit follows a click on Reset Registers or Exchange Register Sets.
C27_EditFrame ==
    [][/\ (lastOp' = "RegisterEditor.handleRegisterChange") =>
             \A register \in EditorRegisters, value \in EditTexts :
                 HandleRegisterEdit(register, value) =>
                     /\ \A k \in RegNames \ {register} : registers'[k] = registers[k]
                     /\ Flags' = Flags
                     /\ FlagsPrime' = FlagsPrime
       /\ (lastOp' = "RegisterEditor.handleFlagChange") =>
             \A flag \in EditedFlags, checked \in BOOLEAN :
                 HandleFlagEdit(flag, checked) =>
                     /\ \A k \in RegNames : registers'[k] = registers[k]
                     /\ \A f \in FlagNames \ {flag} : Flags'[f] = Flags[f]
                     /\ FlagsPrime' = FlagsPrime]_vars

\* C28: after any sequence of register edits and memory edits notified to
\* the App, the handle the App passes to its editors is still the Z80Core
\* instance, on which getState, setState, getF, readByte, writeByte, step and
\* reset can be called and which holds the live halted flag.
C28_HandleIsInstance == app.prototype = "Z80Core"

====
